---------------------------- MODULE Spec2Model ----------------------------
(***************************************************************************)
(* Verification model of the DAIDALUS well-clear detectors (WCV_tvar,       *)
(* WCV_TAUMOD, WCV_TCPA, NoDetector), of the alerter ladder and of the      *)
(* detectors' copy() operation.                                             *)
(*                                                                          *)
(* Numbers.  The C++ code computes on IEEE doubles.  The model computes on  *)
(* exact rationals <<n, d>> (d > 0, lowest terms); NaN is the extra value   *)
(* <<0, 0>>, on which every comparison is false, as in C++.  Square roots   *)
(* are exact: the inputs are drawn from integer grids and kept only when    *)
(* the radicands the detectors take roots of are squares of rationals, so   *)
(* no rounding is modelled.  Util::almost_equals(a,b) is a = b.             *)
(***************************************************************************)
EXTENDS Integers, Sequences, FiniteSets, TLC

-----------------------------------------------------------------------------
(* Exact rational arithmetic (the double arithmetic of the code).           *)

Abs(n) == IF n < 0 THEN -n ELSE n

RECURSIVE Gcd(_, _)
Gcd(a, b) == IF b = 0 THEN a ELSE Gcd(b, a % b)

NaN == <<0, 0>>
PINFINITY == <<1, 0>>
NINFINITY == <<-1, 0>>
IsNaN(r) == r = NaN
IsFinite(r) == r[2] # 0

Norm(n, d) ==
    IF d = 0 THEN NaN
    ELSE LET g == Gcd(Abs(n), Abs(d))
             sg == IF d < 0 THEN -1 ELSE 1
         IN  <<sg * (n \div g), sg * (d \div g)>>

R(n) == <<n, 1>>
Zero == <<0, 1>>

\* Arithmetic is modelled on finite operands (no detector computes on an
\* infinity); anything else yields NaN.
RAdd(a, b) == IF ~IsFinite(a) \/ ~IsFinite(b) THEN NaN
              ELSE Norm(a[1] * b[2] + b[1] * a[2], a[2] * b[2])
RNeg(a)    == IF ~IsFinite(a) THEN NaN ELSE <<-a[1], a[2]>>
RSub(a, b) == RAdd(a, RNeg(b))
RMul(a, b) == IF ~IsFinite(a) \/ ~IsFinite(b) THEN NaN
              ELSE Norm(a[1] * b[1], a[2] * b[2])
\* x/0 is +-infinity or NaN in C++; the detectors guard every division, and
\* the model returns NaN where the code would divide by zero.
RDiv(a, b) == IF ~IsFinite(a) \/ ~IsFinite(b) \/ b[1] = 0 THEN NaN
              ELSE Norm(a[1] * b[2], a[2] * b[1])
RSq(a)     == RMul(a, a)
RAbs(a)    == IF ~IsFinite(a) THEN NaN ELSE <<Abs(a[1]), a[2]>>

RLt(a, b) ==
    /\ ~IsNaN(a) /\ ~IsNaN(b)
    /\ IF IsFinite(a) /\ IsFinite(b) THEN a[1] * b[2] < b[1] * a[2]
       ELSE a # b /\ (a = NINFINITY \/ b = PINFINITY)
RLe(a, b) == ~IsNaN(a) /\ ~IsNaN(b) /\ (a = b \/ RLt(a, b))
RGt(a, b) == RLt(b, a)
RGe(a, b) == RLe(b, a)
REq(a, b) == ~IsNaN(a) /\ ~IsNaN(b) /\ a = b

\* Util::min / Util::max (std::min, std::max): the first argument unless the
\* comparison with the second succeeds.
Util_min(a, b) == IF RLt(b, a) THEN b ELSE a
Util_max(a, b) == IF RLt(a, b) THEN b ELSE a

\* Util::sign: +1 for x >= 0, -1 otherwise.
Util_sign(a) == IF RGe(a, Zero) THEN 1 ELSE -1

ISqrtBound == 64
IsSquareInt(n) == n >= 0 /\ \E r \in 0..ISqrtBound : r * r = n
ISqrt(n) == CHOOSE r \in 0..ISqrtBound : r * r = n
IsSquare(a) == IsFinite(a) /\ IsSquareInt(a[1]) /\ IsSquareInt(a[2])
\* std::sqrt on a radicand that is the square of a rational; NaN below zero.
Sqrt(a) == IF ~IsFinite(a) \/ a[1] < 0 THEN NaN ELSE <<ISqrt(a[1]), ISqrt(a[2])>>

-----------------------------------------------------------------------------
(* Vect2 / Vect3 on rationals.                                              *)

Vect2(x, y) == [x |-> x, y |-> y]
Vect3(x, y, z) == [x |-> x, y |-> y, z |-> z]
IVect3(x, y, z) == Vect3(R(x), R(y), R(z))
vect2(w) == Vect2(w.x, w.y)
V2Sub(a, b) == Vect2(RSub(a.x, b.x), RSub(a.y, b.y))
V3Sub(a, b) == Vect3(RSub(a.x, b.x), RSub(a.y, b.y), RSub(a.z, b.z))
dot(a, b) == RAdd(RMul(a.x, b.x), RMul(a.y, b.y))
det(a, b) == RSub(RMul(a.x, b.y), RMul(a.y, b.x))
sqv(a) == dot(a, a)
\* v.ScalAdd(k, s) = s + k*v
ScalAdd(v, k, s) == Vect2(RAdd(s.x, RMul(k, v.x)), RAdd(s.y, RMul(k, v.y)))
\* so.linear(vo, t) = so + t*vo
linear(s, v, t) == Vect3(RAdd(s.x, RMul(t, v.x)), RAdd(s.y, RMul(t, v.y)),
                         RAdd(s.z, RMul(t, v.z)))

-----------------------------------------------------------------------------
(* Horizontal, Vertical, WCV_TCOA and WCVTable: helpers the detectors call. *)

\* Horizontal::tcpa: time of horizontal closest approach, 0 for v = 0.
Horizontal_tcpa(s, v) ==
    IF sqv(v) # Zero THEN RDiv(RNeg(dot(s, v)), sqv(v)) ELSE Zero

\* Horizontal::dcpa <= D, compared on squares (D >= 0).
Horizontal_dcpa_le(s, v, D) ==
    RLe(sqv(ScalAdd(v, Horizontal_tcpa(s, v), s)), RSq(D))

\* Horizontal::Delta: D^2 |v|^2 - det(s,v)^2.
Horizontal_Delta(s, v, D) == RSub(RMul(RSq(D), sqv(v)), RSq(det(s, v)))

\* Util::root2b: (-b + eps*sqrt(b^2 - a*c))/a, NaN without a real root.
Util_root2b(a, b, c, eps) ==
    LET disc == RSub(RSq(b), RMul(a, c))
    IN  IF a = Zero \/ RLt(disc, Zero) THEN NaN
        ELSE RDiv(RAdd(RNeg(b), RMul(R(eps), Sqrt(disc))), a)

\* Horizontal::Theta_D: the time at which |s + t*v| = D (eps = -1 entry,
\* eps = +1 exit).
Horizontal_Theta_D(s, v, eps, D) ==
    Util_root2b(sqv(v), dot(s, v), RSub(sqv(s), RSq(D)), eps)

\* Vertical::time_coalt: -sz/vz.
Vertical_time_coalt(sz, vz) == RDiv(RNeg(sz), vz)

\* Vertical::Theta_H: (eps*sign(vz)*H - sz)/vz.
Vertical_Theta_H(sz, vz, eps, H) ==
    RDiv(RSub(RMul(R(eps * Util_sign(vz)), H), sz), vz)

Interval(low, up) == [low |-> low, up |-> up]
LossData(tin, tout) == [time_in |-> tin, time_out |-> tout]

\* WCV_TCOA::vertical_WCV: |sz| <= ZTHR, or closing with time to co-altitude
\* at most TCOA.
vertical_WCV(ZTHR, TCOA, sz, vz) ==
    \/ RLe(RAbs(sz), ZTHR)
    \/ /\ vz # Zero
       /\ RLe(RMul(sz, vz), Zero)
       /\ RLe(Vertical_time_coalt(sz, vz), TCOA)

\* WCV_TCOA::vertical_WCV_interval on [B,T]; empty is (T,B).
vertical_WCV_interval(ZTHR, TCOA, B, T, sz, vz) ==
    IF vz = Zero /\ RLe(RAbs(sz), ZTHR) THEN Interval(B, T)
    ELSE IF vz = Zero THEN Interval(T, B)
    ELSE LET act_H  == Util_max(ZTHR, RMul(RAbs(vz), TCOA))
             tentry == Vertical_Theta_H(sz, vz, -1, act_H)
             texit  == Vertical_Theta_H(sz, vz, 1, ZTHR)
         IN  IF RLt(T, tentry) \/ RLt(texit, B) THEN Interval(T, B)
             ELSE Interval(Util_max(B, tentry), Util_min(T, texit))

\* WCVTable: the four thresholds, and its partial order.
WCVTable(D, Z, TT, TC) == [DTHR |-> R(D), ZTHR |-> R(Z), TTHR |-> R(TT), TCOA |-> R(TC)]

WCVTable_contains(a, b) ==
    /\ RGe(a.DTHR, b.DTHR) /\ RGe(a.ZTHR, b.ZTHR)
    /\ RGe(a.TTHR, b.TTHR) /\ RGe(a.TCOA, b.TCOA)

-----------------------------------------------------------------------------
(* The detectors.  A detector value is [cls, table, id]; the vertical model *)
(* of WCV_TAUMOD and WCV_TCPA is WCV_TCOA (their constructors).             *)

TAUMOD == "WCV_TAUMOD"
TCPA == "WCV_TCPA"
NODET == "NoDetector"

Detector(cls, table, id) == [cls |-> cls, table |-> table, id |-> id]

\* WCV_TAUMOD::horizontal_tvar: modified tau, -1 when not closing.
TAUMOD_horizontal_tvar(tab, s, v) ==
    LET sdotv == dot(s, v)
    IN  IF RLt(sdotv, Zero) THEN RDiv(RSub(RSq(tab.DTHR), sqv(s)), sdotv)
        ELSE R(-1)

\* WCV_TCPA::horizontal_tvar.
TCPA_horizontal_tvar(tab, s, v) ==
    LET sdotv == dot(s, v)
    IN  IF RLt(sdotv, Zero) THEN RDiv(RSub(RSq(tab.DTHR), sqv(s)), sdotv)
        ELSE R(-1)

horizontal_tvar(d, s, v) ==
    IF d.cls = TCPA THEN TCPA_horizontal_tvar(d.table, s, v)
    ELSE TAUMOD_horizontal_tvar(d.table, s, v)

\* WCV_tvar::horizontal_WCV.
horizontal_WCV(d, s, v) ==
    IF RLe(sqv(s), RSq(d.table.DTHR)) THEN TRUE
    ELSE IF Horizontal_dcpa_le(s, v, d.table.DTHR)
         THEN LET tvar == horizontal_tvar(d, s, v)
              IN  RLe(Zero, tvar) /\ RLe(tvar, d.table.TTHR)
         ELSE FALSE

\* A variant of WCV_TAUMOD::horizontal_WCV_interval that, starting inside the
\* distance threshold, reports the violation up to T instead of up to the exit.
TAUMOD_horizontal_WCV_interval_NoExit(tab, T, s, v) ==
    LET sqs   == sqv(s)
        sdotv == dot(s, v)
        sqD   == RSq(tab.DTHR)
        a     == sqv(v)
        b     == RAdd(RMul(R(2), sdotv), RMul(tab.TTHR, sqv(v)))
        c     == RSub(RAdd(sqs, RMul(tab.TTHR, sdotv)), sqD)
        discr == RSub(RSq(b), RMul(R(4), RMul(a, c)))
        t     == RDiv(RSub(RNeg(b), Sqrt(discr)), RMul(R(2), a))
    IN  IF RLe(sqs, sqD) THEN LossData(Zero, T)
        ELSE IF RGe(sdotv, Zero) \/ RLt(discr, Zero) THEN LossData(T, Zero)
        ELSE IF RGe(Horizontal_Delta(s, v, tab.DTHR), Zero) /\ RLe(t, T)
             THEN LossData(Util_max(Zero, t),
                           Util_min(T, Horizontal_Theta_D(s, v, 1, tab.DTHR)))
        ELSE LossData(T, Zero)

\* WCV_TAUMOD::horizontal_WCV_interval on [0,T].
TAUMOD_horizontal_WCV_interval(tab, T, s, v) ==
    LET sqs   == sqv(s)
        sdotv == dot(s, v)
        sqD   == RSq(tab.DTHR)
        a     == sqv(v)
        b     == RAdd(RMul(R(2), sdotv), RMul(tab.TTHR, sqv(v)))
        c     == RSub(RAdd(sqs, RMul(tab.TTHR, sdotv)), sqD)
        discr == RSub(RSq(b), RMul(R(4), RMul(a, c)))
        t     == RDiv(RSub(RNeg(b), Sqrt(discr)), RMul(R(2), a))
    IN  IF a = Zero /\ RLe(sqs, sqD) THEN LossData(Zero, T)
        ELSE IF RLe(sqs, sqD)
             THEN LossData(Zero, Util_min(T, Horizontal_Theta_D(s, v, 1, tab.DTHR)))
        ELSE IF RGe(sdotv, Zero) \/ RLt(discr, Zero) THEN LossData(T, Zero)
        ELSE IF RGe(Horizontal_Delta(s, v, tab.DTHR), Zero) /\ RLe(t, T)
             THEN LossData(Util_max(Zero, t),
                           Util_min(T, Horizontal_Theta_D(s, v, 1, tab.DTHR)))
        ELSE LossData(T, Zero)

\* WCV_TCPA::horizontal_WCV_interval on [0,T].
TCPA_horizontal_WCV_interval(tab, T, s, v) ==
    LET sqs   == sqv(s)
        sqvv  == sqv(v)
        sdotv == dot(s, v)
        sqD   == RSq(tab.DTHR)
        tcpa  == Horizontal_tcpa(s, v)
        Delta == Horizontal_Delta(s, v, tab.DTHR)
        tmin  == Util_min(Horizontal_Theta_D(s, v, -1, tab.DTHR), RSub(tcpa, tab.TTHR))
    IN  IF sqvv = Zero /\ RLe(sqs, sqD) THEN LossData(Zero, T)
        ELSE IF sqvv = Zero THEN LossData(T, Zero)
        ELSE IF RLe(sqs, sqD)
             THEN LossData(Zero, Util_min(T, Horizontal_Theta_D(s, v, 1, tab.DTHR)))
        ELSE IF RGt(sdotv, Zero) THEN LossData(T, Zero)
        ELSE IF RGt(sqv(ScalAdd(v, tcpa, s)), sqD) THEN LossData(T, Zero)
        ELSE IF RLt(Delta, Zero) /\ RGt(RSub(tcpa, tab.TTHR), T) THEN LossData(T, Zero)
        ELSE IF RLt(Delta, Zero)
             THEN LossData(Util_max(Zero, RSub(tcpa, tab.TTHR)), Util_min(T, tcpa))
        ELSE IF RGt(tmin, T) THEN LossData(T, Zero)
        ELSE LossData(Util_max(Zero, tmin),
                      Util_min(T, Horizontal_Theta_D(s, v, 1, tab.DTHR)))

horizontal_WCV_interval(d, T, s, v) ==
    IF d.cls = TCPA THEN TCPA_horizontal_WCV_interval(d.table, T, s, v)
    ELSE TAUMOD_horizontal_WCV_interval(d.table, T, s, v)

\* A variant of LossData_offset that leaves the interval where it is.
LossData_offset_None(ld, t) == LossData(ld.time_in, ld.time_out)

\* WCV_tvar::WCV_interval, its last three lines: the horizontal interval ld,
\* computed from the start of the vertical interval, is moved back by ii.low.
LossData_offset(ld, t) == LossData(RAdd(ld.time_in, t), RAdd(ld.time_out, t))

\* A variant of WCV_interval_from that does not advance the relative position
\* to the start of the vertical interval.
WCV_interval_from_NoStep(d, s2, v2, ii, B, T) ==
    LET step == s2
    IN  IF RGt(ii.low, ii.up) THEN LossData(T, B)
        ELSE IF ii.low = ii.up
             THEN IF horizontal_WCV(d, step, v2) THEN LossData(ii.low, ii.up)
                  ELSE LossData(T, B)
        ELSE LossData_offset(horizontal_WCV_interval(d, RSub(ii.up, ii.low), step, v2),
                             ii.low)

\* WCV_tvar::WCV_interval from the vertical interval ii on.  Util::almost_equals
\* is equality here (the arithmetic is exact); the empty interval is (T,B).
WCV_interval_from(d, s2, v2, ii, B, T) ==
    LET step == ScalAdd(v2, ii.low, s2)
    IN  IF RGt(ii.low, ii.up) THEN LossData(T, B)
        ELSE IF ii.low = ii.up
             THEN IF horizontal_WCV(d, step, v2) THEN LossData(ii.low, ii.up)
                  ELSE LossData(T, B)
        ELSE LossData_offset(horizontal_WCV_interval(d, RSub(ii.up, ii.low), step, v2),
                             ii.low)

\* A variant of WCV_interval that takes the ownship's vertical speed for the
\* relative vertical speed.
WCV_interval_AbsVz(d, so, vo, si, vi, B, T) ==
    LET s2 == V2Sub(vect2(so), vect2(si))
        v2 == V2Sub(vect2(vo), vect2(vi))
        sz == RSub(so.z, si.z)
        vz == vo.z
    IN  WCV_interval_from(d, s2, v2,
            vertical_WCV_interval(d.table.ZTHR, d.table.TCOA, B, T, sz, vz), B, T)

\* WCV_tvar::WCV_interval: the relative state and the vertical interval.
WCV_interval(d, so, vo, si, vi, B, T) ==
    LET s2 == V2Sub(vect2(so), vect2(si))
        v2 == V2Sub(vect2(vo), vect2(vi))
        sz == RSub(so.z, si.z)
        vz == RSub(vo.z, vi.z)
    IN  WCV_interval_from(d, s2, v2,
            vertical_WCV_interval(d.table.ZTHR, d.table.TCOA, B, T, sz, vz), B, T)

\* WCV_tvar::WCV3D.
WCV3D(d, so, vo, si, vi, B, T) == WCV_interval(d, so, vo, si, vi, B, T)

\* ConflictData: the loss interval, the critical time and the relative state
\* (dist_crit, a cylindrical norm no property here reads, is left out).
ConflictData(ld, t_tca, s, v) ==
    [time_in |-> ld.time_in, time_out |-> ld.time_out, time_crit |-> t_tca,
     s |-> s, v |-> v]

\* WCV_tvar::conflictDetection, its last three lines: the ConflictData of the
\* loss interval ret, with t_tca = (time_in + time_out)/2.
ConflictData_tca(ret, s, v) ==
    ConflictData(ret, RDiv(RAdd(ret.time_in, ret.time_out), R(2)), s, v)

\* WCV_tvar::conflictDetection.
WCV_conflictDetection(d, so, vo, si, vi, B, T) ==
    ConflictData_tca(WCV3D(d, so, vo, si, vi, B, T), V3Sub(so, si), V3Sub(vo, vi))

\* The violation predicate of a WCV detector at the current state: the
\* horizontal and the vertical predicate both hold.
WCV_violation(d, so, vo, si, vi) ==
    /\ horizontal_WCV(d, V2Sub(vect2(so), vect2(si)), V2Sub(vect2(vo), vect2(vi)))
    /\ vertical_WCV(d.table.ZTHR, d.table.TCOA, RSub(so.z, si.z), RSub(vo.z, vi.z))

\* ConflictData's default constructor: the empty interval (+inf, -inf).
ConflictData_default ==
    [time_in |-> PINFINITY, time_out |-> NINFINITY, time_crit |-> PINFINITY,
     s |-> IVect3(0, 0, 0), v |-> IVect3(0, 0, 0)]

\* A variant of NoDetector::conflictDetection that reports the whole window.
NoDetector_conflictDetection_Window(so, vo, si, vi, B, T) ==
    [time_in |-> B, time_out |-> T, time_crit |-> B,
     s |-> V3Sub(so, si), v |-> V3Sub(vo, vi)]

\* NoDetector::conflictDetection.
NoDetector_conflictDetection(so, vo, si, vi, B, T) == ConflictData_default

\* Detection3D::conflictDetection, dispatched on the detector's class.
conflictDetection(d, so, vo, si, vi, B, T) ==
    IF d.cls = NODET THEN NoDetector_conflictDetection(so, vo, si, vi, B, T)
    ELSE WCV_conflictDetection(d, so, vo, si, vi, B, T)

\* Detection3D::violation, dispatched on the detector's class.
violation(d, so, vo, si, vi) ==
    IF d.cls = NODET THEN FALSE ELSE WCV_violation(d, so, vo, si, vi)

\* A variant of containsTable with the two tables exchanged.
containsTable_Reversed(a, b) == WCVTable_contains(b.table, a.table)

\* WCV_tvar::containsTable.
containsTable(a, b) == WCVTable_contains(a.table, b.table)

\* A variant of WCV_TAUMOD::contains that accepts a detector of an accepted
\* class without comparing the tables.
TAUMOD_contains_AnyTable(a, b) == b.cls = a.cls \/ b.cls = TCPA

\* WCV_TAUMOD::contains: a WCV_TAUMOD or a WCV_TCPA with a contained table.
TAUMOD_contains(a, b) ==
    IF b.cls = a.cls \/ b.cls = TCPA THEN containsTable(a, b) ELSE FALSE

\* WCV_TCPA::contains: a WCV_TCPA with a contained table.
TCPA_contains(a, b) ==
    IF b.cls = a.cls THEN containsTable(a, b) ELSE FALSE

\* NoDetector::contains.
NoDetector_contains(a, b) == FALSE

\* Detection3D::contains, dispatched on the detector's class.
contains(a, b) ==
    IF a.cls = TAUMOD THEN TAUMOD_contains(a, b)
    ELSE IF a.cls = TCPA THEN TCPA_contains(a, b)
    ELSE NoDetector_contains(a, b)

\* The convention of ConflictData: a conflict iff time_in <= time_out.
conflict(cd) == RLe(cd.time_in, cd.time_out)

-----------------------------------------------------------------------------
(* The alerter: a 1-indexed list of alert thresholds, least severe first.   *)
(* Of an AlertThresholds the alerting decision reads the detector and the   *)
(* alerting time (the early alerting time only under SUM).                  *)

AlertThresholds(d, alerting_time) == [detector |-> d, alerting_time |-> alerting_time]

\* Alerter::addLevel: appends the thresholds; the new level is the last one.
Alerter_addLevel(lv, thr) == Append(lv, thr)

\* Alerter::mostSevereAlertLevel.
Alerter_mostSevereAlertLevel(lv) == Len(lv)

\* Alerter::getDetector.
Alerter_getDetector(lv, i) == lv[i].detector

\* Step 2 of the alerting decision for level i: the detector's conflict data
\* on the window [0, alerting_time(i)].
levelDetection(lv, i, own, vown, int, vint) ==
    conflictDetection(Alerter_getDetector(lv, i), own, vown, int, vint,
                      Zero, R(lv[i].alerting_time))

RECURSIVE alertLevelFrom(_, _, _, _, _, _)
\* The scan of the alerting decision from level i down to 1.
alertLevelFrom(lv, i, own, vown, int, vint) ==
    IF i <= 0 THEN 0
    ELSE IF conflict(levelDetection(lv, i, own, vown, int, vint)) THEN i
    ELSE alertLevelFrom(lv, i - 1, own, vown, int, vint)

RECURSIVE alertLevelUpFrom(_, _, _, _, _, _)
alertLevelUpFrom(lv, i, own, vown, int, vint) ==
    IF i > Len(lv) THEN 0
    ELSE IF conflict(levelDetection(lv, i, own, vown, int, vint)) THEN i
    ELSE alertLevelUpFrom(lv, i + 1, own, vown, int, vint)

\* A variant of alertLevel that scans from level 1 upwards.
alertLevel_Upwards(lv, own, vown, int, vint) ==
    alertLevelUpFrom(lv, 1, own, vown, int, vint)

\* The alerting decision: the first level, from the most severe down to 1,
\* whose detector reports time_in <= time_out; 0 when there is none.
alertLevel(lv, own, vown, int, vint) ==
    alertLevelFrom(lv, Alerter_mostSevereAlertLevel(lv), own, vown, int, vint)

-----------------------------------------------------------------------------
(* Detector objects on the heap.  A WCV_tvar object owns a vertical-model   *)
(* object through the pointer wcv_vertical (0 is NULL); the heap maps the   *)
(* addresses of detector objects and of vertical-model objects to them.     *)

\* At most MaxObjs detector objects exist at a time.
MaxObjs == 2
\* A run of SpecCopy performs at most MaxOps operations.
MaxOps == 5

ObjIds == 1..MaxObjs
VertIds == 1..(MaxObjs + 1)

HZ == "WCV_HZ"
TCOA_V == "WCV_TCOA"
VMOD_V == "WCV_VMOD"
Free == "free"

\* An address that holds no detector object.
NoObject ==
    [alive |-> FALSE, cls |-> "", table |-> WCVTable(0, 0, 0, 0), id |-> "", vertical |-> 0]

Heap(os, vs) == [objs |-> os, verts |-> vs]

\* operator new: the lowest free address for a vertical-model object.
NewVert(vs) == CHOOSE v \in VertIds : vs[v] = Free /\ \A w \in VertIds : vs[w] = Free => v <= w

\* The vertical model the constructors of a class create.
VerticalOf(cls) == IF cls = HZ THEN VMOD_V ELSE TCOA_V

\* A variant of copyFrom that copies the pointer wcv_vertical instead of the
\* object it points to.
copyFrom_Shallow(h, this, wcv) ==
    IF wcv = this THEN h
    ELSE LET src == h.objs[wcv]
             old == h.objs[this].vertical
             vs1 == IF old # 0 THEN [h.verts EXCEPT ![old] = Free] ELSE h.verts
         IN  Heap([h.objs EXCEPT ![this] =
                      [@ EXCEPT !.table = src.table, !.vertical = src.vertical, !.id = src.id]],
                  vs1)

\* WCV_tvar::copyFrom: the table, a copy of the vertical model (the old one
\* is deleted) and the identifier.
copyFrom(h, this, wcv) ==
    IF wcv = this THEN h
    ELSE LET src == h.objs[wcv]
             old == h.objs[this].vertical
             vs1 == IF old # 0 THEN [h.verts EXCEPT ![old] = Free] ELSE h.verts
             nv  == IF src.vertical # 0 THEN NewVert(vs1) ELSE 0
             vs2 == IF nv # 0 THEN [vs1 EXCEPT ![nv] = h.verts[src.vertical]] ELSE vs1
         IN  Heap([h.objs EXCEPT ![this] =
                      [@ EXCEPT !.table = src.table, !.vertical = nv, !.id = src.id]],
                  vs2)

\* WCV_TCPA::WCV_TCPA() and WCV_HZ::WCV_HZ() at address ret: a new vertical
\* model, the default table and the empty identifier.
construct(h, ret, cls) ==
    LET nv == NewVert(h.verts)
    IN  Heap([h.objs EXCEPT ![ret] =
                 [alive |-> TRUE, cls |-> cls, table |-> WCVTable(0, 0, 0, 0),
                  id |-> "", vertical |-> nv]],
             [h.verts EXCEPT ![nv] = VerticalOf(cls)])

\* WCV_TCPA::copy: new WCV_TCPA(), then copyFrom(*this).
TCPA_copy(h, this, ret) == copyFrom(construct(h, ret, TCPA), ret, this)

\* WCV_HZ::copy: new WCV_HZ(), then copyFrom(*this).
HZ_copy(h, this, ret) == copyFrom(construct(h, ret, HZ), ret, this)

\* WCV_TAUMOD::copy: the copy constructor, which takes the identifier, a copy
\* of the vertical model and the table.
TAUMOD_copy(h, this, ret) ==
    LET src == h.objs[this]
        nv  == NewVert(h.verts)
    IN  Heap([h.objs EXCEPT ![ret] =
                 [alive |-> TRUE, cls |-> TAUMOD, table |-> src.table,
                  id |-> src.id, vertical |-> nv]],
             [h.verts EXCEPT ![nv] = h.verts[src.vertical]])

\* NoDetector::copy: new NoDetector(), an object without table, identifier
\* or vertical model (the table field holds a placeholder nothing reads).
NoDetector_copy(h, this, ret) ==
    Heap([h.objs EXCEPT ![ret] =
             [alive |-> TRUE, cls |-> NODET, table |-> WCVTable(0, 0, 0, 0),
              id |-> "", vertical |-> 0]],
         h.verts)

\* Detection3D::copy, dispatched on the object's class.
copy(h, this, ret) ==
    IF h.objs[this].cls = TAUMOD THEN TAUMOD_copy(h, this, ret)
    ELSE IF h.objs[this].cls = TCPA THEN TCPA_copy(h, this, ret)
    ELSE IF h.objs[this].cls = NODET THEN NoDetector_copy(h, this, ret)
    ELSE HZ_copy(h, this, ret)

\* WCVTable::equals: the four thresholds agree.
WCVTable_equals(a, b) ==
    a.DTHR = b.DTHR /\ a.ZTHR = b.ZTHR /\ a.TTHR = b.TTHR /\ a.TCOA = b.TCOA

\* getSimpleClassName: the class name of a WCV detector, "" for NoDetector.
getSimpleClassName(o) == IF o.cls = NODET THEN "" ELSE o.cls

\* Detection3D::getCanonicalClassName.
getCanonicalClassName(o) == "gov.nasa.larcfm.ACCoRD." \o getSimpleClassName(o)

\* WCV_tvar::equals: class name, table and identifier are compared in turn.
WCV_equals(h, this, obj) ==
    IF getCanonicalClassName(h.objs[this]) # getCanonicalClassName(h.objs[obj]) THEN FALSE
    ELSE IF ~WCVTable_equals(h.objs[this].table, h.objs[obj].table) THEN FALSE
    ELSE IF h.objs[this].id # h.objs[obj].id THEN FALSE
    ELSE TRUE

\* NoDetector::equals.
NoDetector_equals(h, this, obj) == FALSE

\* Detection3D::equals, dispatched on the class of the object it is called on.
equals(h, this, obj) ==
    IF h.objs[this].cls = NODET THEN NoDetector_equals(h, this, obj)
    ELSE WCV_equals(h, this, obj)

\* WCV_tvar::~WCV_tvar: deletes the vertical model.
destroy(h, this) ==
    LET v == h.objs[this].vertical
    IN  Heap([h.objs EXCEPT ![this] = NoObject],
             IF v # 0 THEN [h.verts EXCEPT ![v] = Free] ELSE h.verts)

\* The setters of WCV_tvar, on the object's fields.
setDTHR(o, val) == [o EXCEPT !.table.DTHR = val]
setZTHR(o, val) == [o EXCEPT !.table.ZTHR = val]
setTTHR(o, val) == [o EXCEPT !.table.TTHR = val]
setTCOA(o, val) == [o EXCEPT !.table.TCOA = val]
setWCVTable(o, tab) == [o EXCEPT !.table = tab]
setIdentifier(o, s) == [o EXCEPT !.id = s]

\* WCVTable::setParameters: the thresholds that p names.
WCVTable_setParameters(tab, p) ==
    [k \in DOMAIN tab |-> IF ("WCV_" \o k) \in DOMAIN p THEN p["WCV_" \o k] ELSE tab[k]]

\* WCV_tvar::setParameters: the table's parameters, and id when p has it.
setParameters(o, p) ==
    [o EXCEPT !.table = WCVTable_setParameters(o.table, p),
              !.id = IF "id" \in DOMAIN p THEN p["id"] ELSE @]

-----------------------------------------------------------------------------
(* Bounds and input grids.                                                  *)

\* Look-ahead windows [B,T] range over B in {0,1}, B <= T <= MaxT.
MaxT == 3
\* The ownship's altitude ranges down to -MaxAlt.
MaxAlt == 3

Tables ==
    { WCVTable(5, 2, 0, 0),     \* a cylinder: TTHR = TCOA = 0
      WCVTable(5, 1, 6, 2),
      WCVTable(3, 2, 4, 1) }

PosX == {-8, -6, -4, 1}
PosY == {0, 3, 4}
PosZ == {-MaxAlt, -1, 1}
VelX == {-1, 0, 1}
VelY == {0, 1}
VelZ == {0, 1, 2}
\* The intruder of specification Spec.
Intruder == <<IVect3(1, 0, -1), IVect3(-1, 0, 1)>>

\* The inputs on which the detectors' square roots are exact: the radicands
\* of Horizontal::Theta_D (Delta) and of horizontal_WCV_interval (discr) are
\* squares whenever a root of them is taken.
ExactRoots(d, so, vo, si, vi) ==
    LET s2 == V2Sub(vect2(so), vect2(si))
        v2 == V2Sub(vect2(vo), vect2(vi))
        Delta == Horizontal_Delta(s2, v2, d.table.DTHR)
        discr == RAdd(RMul(RSq(d.table.TTHR), RSq(sqv(v2))), RMul(R(4), Delta))
    IN  \/ d.cls = NODET
        \/ sqv(v2) = Zero
        \/ RLt(Delta, Zero)
        \/ IsSquare(Delta) /\ (d.cls = TAUMOD => IsSquare(discr))

-----------------------------------------------------------------------------
(* Specification Spec: one detector, one encounter, one window; the calls   *)
(* of violation and conflictDetection on it.                                *)

VARIABLES
    detector,   \* the detector
    so, vo,     \* ownship position and velocity
    si, vi,     \* intruder position and velocity
    B, T,       \* the look-ahead window
    pc,         \* which calls have been made
    viol,       \* result of violation(so,vo,si,vi) (FALSE before the call)
    cd,         \* result of conflictDetection(so,vo,si,vi,B,T)
    cdSwap,     \* result of conflictDetection(si,vi,so,vo,B,T)
    T1,         \* a split point B <= T1 <= T (-1 before it is chosen)
    cdLeft,     \* result of conflictDetection(so,vo,si,vi,B,T1)
    cdRight,    \* result of conflictDetection(so,vo,si,vi,T1,T)
    detB,       \* SpecContains: a second detector
    contained,  \* SpecContains: result of detector.contains(detB)
    violB,      \* SpecContains: result of detB.violation(so,vo,si,vi)
    cdB,        \* SpecContains: result of detB.conflictDetection(so,vo,si,vi,B,T)
    levels,     \* SpecAlerter: the alerter's levels, a sequence of thresholds
    alert,      \* SpecAlerter: result of alertLevel (-1 before the call)
    objs,       \* SpecCopy: the detector objects, by address
    verts,      \* SpecCopy: the vertical-model objects, by address
    nops,       \* SpecCopy: the number of operations performed
    equal,      \* SpecEquals: result of equals (FALSE before the call)
    eqThis,     \* SpecEquals: the object equals was called on (0 before the call)
    eqObj,      \* SpecEquals: the argument of equals (0 before the call)
    fn,         \* the kinematics or velocity function called ("" before the call)
    args,       \* its arguments
    ret,        \* its result
    sr_,        \* SpecWalker: the sequence reader, its time steps and the active one
    index_,     \* SpecWalker: the index of the current time step
    times_,     \* SpecWalker: the times of the time steps, in seconds
    ownship_,   \* SpecWalker: the name of the ownship ("" for the first aircraft)
    traffic_    \* SpecWalker: the selected traffic aircraft

inputs == <<detector, so, vo, si, vi, B, T>>
detectVars == <<viol, cd, cdSwap, T1, cdLeft, cdRight>>
containsVars == <<detB, contained, violB, cdB>>

alerterVars == <<levels, alert>>

copyVars == <<objs, verts, nops>>

equalsVars == <<equal, eqThis, eqObj>>

\* The variables of the specifications that follow SpecCopy.
callVars == <<fn, args, ret>>
walkerVars == <<sr_, index_, times_, ownship_, traffic_>>
otherVars == <<equalsVars, callVars, walkerVars>>

vars == <<inputs, pc, detectVars, containsVars, alerterVars, copyVars, otherVars>>

\* The value of a result variable before its call is made.
NoResult ==
    [time_in |-> NaN, time_out |-> NaN, time_crit |-> NaN,
     s |-> IVect3(0, 0, 0), v |-> IVect3(0, 0, 0)]

\* The variables of SpecContains where they are not used.
ContainsIdle ==
    /\ detB = Detector(NODET, WCVTable(0, 0, 0, 0), "")
    /\ contained = FALSE /\ violB = FALSE /\ cdB = NoResult

\* The result variables of Spec where they are not used.
DetectIdle ==
    /\ viol = FALSE /\ cd = NoResult /\ cdSwap = NoResult
    /\ T1 = -1 /\ cdLeft = NoResult /\ cdRight = NoResult

\* The variables of SpecAlerter where they are not used.
AlerterIdle == levels = <<>> /\ alert = -1

\* The variables of SpecCopy where they are not used.
CopyIdle ==
    /\ objs = [o \in ObjIds |-> NoObject] /\ verts = [v \in VertIds |-> Free]
    /\ nops = 0

\* The variables of SpecEquals where they are not used.
EqualsIdle == equal = FALSE /\ eqThis = 0 /\ eqObj = 0

\* The variables of the specifications that follow SpecCopy, not used.
CallIdle == fn = "" /\ args = <<>> /\ ret = <<>>
WalkerIdle == sr_ = <<>> /\ index_ = 0 /\ times_ = <<>> /\ ownship_ = "" /\ traffic_ = <<>>
OtherIdle == EqualsIdle /\ CallIdle /\ WalkerIdle

Detectors ==
    {Detector(TAUMOD, tab, "") : tab \in Tables}
    \cup {Detector(TCPA, WCVTable(5, 1, 6, 2), ""), Detector(NODET, WCVTable(0, 0, 0, 0), "")}

Init ==
    /\ detector \in Detectors
    /\ so \in {IVect3(x, y, z) : x \in PosX, y \in PosY, z \in PosZ}
    /\ vo \in {IVect3(x, y, z) : x \in VelX, y \in VelY, z \in VelZ}
    /\ si = Intruder[1] /\ vi = Intruder[2]
    /\ ExactRoots(detector, so, vo, si, vi)
    /\ B \in {0, 1}
    /\ T \in B..MaxT
    /\ pc = "start"
    /\ DetectIdle
    /\ ContainsIdle
    /\ AlerterIdle
    /\ CopyIdle
    /\ OtherIdle

\* violation(so,vo,si,vi)
Violation ==
    /\ pc = "start"
    /\ viol' = violation(detector, so, vo, si, vi)
    /\ pc' = "violation"
    /\ UNCHANGED <<inputs, cd, cdSwap, T1, cdLeft, cdRight, containsVars, alerterVars, copyVars, otherVars>>

\* conflictDetection(so,vo,si,vi,B,T)
ConflictDetection ==
    /\ pc = "start"
    /\ cd' = conflictDetection(detector, so, vo, si, vi, R(B), R(T))
    /\ pc' = "detected"
    /\ UNCHANGED <<inputs, viol, cdSwap, T1, cdLeft, cdRight, containsVars, alerterVars, copyVars, otherVars>>

\* conflictDetection(si,vi,so,vo,B,T): the same call with the roles swapped
ConflictDetectionSwapped ==
    /\ pc = "detected"
    /\ cdSwap' = conflictDetection(detector, si, vi, so, vo, R(B), R(T))
    /\ pc' = "swapped"
    /\ UNCHANGED <<inputs, viol, cd, T1, cdLeft, cdRight, containsVars, alerterVars, copyVars, otherVars>>

\* conflictDetection(so,vo,si,vi,B,T1) for a split point T1
ConflictDetectionLeft ==
    /\ pc = "swapped"
    /\ \E t \in B..T :
          /\ T1' = t
          /\ cdLeft' = conflictDetection(detector, so, vo, si, vi, R(B), R(t))
    /\ pc' = "left"
    /\ UNCHANGED <<inputs, viol, cd, cdSwap, cdRight, containsVars, alerterVars, copyVars, otherVars>>

\* conflictDetection(so,vo,si,vi,T1,T)
ConflictDetectionRight ==
    /\ pc = "left"
    /\ cdRight' = conflictDetection(detector, so, vo, si, vi, R(T1), R(T))
    /\ pc' = "done"
    /\ UNCHANGED <<inputs, viol, cd, cdSwap, T1, cdLeft, containsVars, alerterVars, copyVars, otherVars>>

Next ==
    \/ Violation
    \/ ConflictDetection
    \/ ConflictDetectionSwapped
    \/ ConflictDetectionLeft
    \/ ConflictDetectionRight

Spec == Init /\ [][Next]_vars

-----------------------------------------------------------------------------
(* Specification SpecContains: two detectors on one encounter and window;   *)
(* detector.contains(detB), then violation and conflictDetection of both.   *)

ContainersA ==
    {Detector(TAUMOD, WCVTable(5, 2, 6, 2), ""), Detector(TAUMOD, WCVTable(3, 1, 0, 0), ""),
     Detector(TCPA, WCVTable(5, 1, 6, 2), ""), Detector(NODET, WCVTable(0, 0, 0, 0), "")}

ContainersB ==
    {Detector(TAUMOD, WCVTable(5, 1, 6, 2), ""), Detector(TAUMOD, WCVTable(3, 1, 0, 0), ""),
     Detector(TCPA, WCVTable(5, 1, 6, 2), ""), Detector(TCPA, WCVTable(3, 1, 4, 1), "")}

InitContains ==
    /\ detector \in ContainersA
    /\ detB \in ContainersB
    /\ so \in {IVect3(x, y, z) : x \in PosX, y \in PosY, z \in PosZ}
    /\ vo \in {IVect3(x, y, z) : x \in VelX, y \in {0}, z \in VelZ}
    /\ si = Intruder[1] /\ vi = Intruder[2]
    /\ ExactRoots(detector, so, vo, si, vi)
    /\ ExactRoots(detB, so, vo, si, vi)
    /\ B \in {0, 1}
    /\ T \in B..MaxT
    /\ pc = "start"
    /\ contained = FALSE /\ violB = FALSE /\ cdB = NoResult
    /\ DetectIdle
    /\ AlerterIdle
    /\ CopyIdle
    /\ OtherIdle

\* detector.contains(detB)
Contains ==
    /\ pc = "start"
    /\ contained' = contains(detector, detB)
    /\ pc' = "asked"
    /\ UNCHANGED <<inputs, detectVars, detB, violB, cdB, alerterVars, copyVars, otherVars>>

\* detector.violation(so,vo,si,vi)
ViolationA ==
    /\ pc = "asked"
    /\ viol' = violation(detector, so, vo, si, vi)
    /\ pc' = "violA"
    /\ UNCHANGED <<inputs, cd, cdSwap, T1, cdLeft, cdRight, containsVars, alerterVars, copyVars, otherVars>>

\* detB.violation(so,vo,si,vi)
ViolationB ==
    /\ pc = "violA"
    /\ violB' = violation(detB, so, vo, si, vi)
    /\ pc' = "violB"
    /\ UNCHANGED <<inputs, detectVars, detB, contained, cdB, alerterVars, copyVars, otherVars>>

\* detector.conflictDetection(so,vo,si,vi,B,T)
ConflictDetectionA ==
    /\ pc = "violB"
    /\ cd' = conflictDetection(detector, so, vo, si, vi, R(B), R(T))
    /\ pc' = "cdA"
    /\ UNCHANGED <<inputs, viol, cdSwap, T1, cdLeft, cdRight, containsVars, alerterVars, copyVars, otherVars>>

\* detB.conflictDetection(so,vo,si,vi,B,T)
ConflictDetectionB ==
    /\ pc = "cdA"
    /\ cdB' = conflictDetection(detB, so, vo, si, vi, R(B), R(T))
    /\ pc' = "cdB"
    /\ UNCHANGED <<inputs, detectVars, detB, contained, violB, alerterVars, copyVars, otherVars>>

NextContains ==
    \/ Contains
    \/ ViolationA
    \/ ViolationB
    \/ ConflictDetectionA
    \/ ConflictDetectionB

SpecContains == InitContains /\ [][NextContains]_vars

-----------------------------------------------------------------------------
(* Specification SpecAlerter: an alerter is built level by level and the    *)
(* alerting decision is taken for one encounter.                            *)

\* An alerter has at most MaxLevels levels.
MaxLevels == 2

AlerterDetectors ==
    {Detector(TAUMOD, WCVTable(5, 2, 6, 2), ""), Detector(TAUMOD, WCVTable(5, 1, 6, 2), ""),
     Detector(TCPA, WCVTable(5, 1, 6, 2), ""), Detector(NODET, WCVTable(0, 0, 0, 0), "")}

\* The thresholds an alerter is built from: a detector and an alerting time.
Thresholds ==
    {AlertThresholds(Detector(TAUMOD, WCVTable(5, 2, 6, 2), ""), MaxT),
     AlertThresholds(Detector(TAUMOD, WCVTable(5, 2, 6, 2), ""), 1),
     AlertThresholds(Detector(TAUMOD, WCVTable(5, 1, 6, 2), ""), 1),
     AlertThresholds(Detector(TCPA, WCVTable(5, 1, 6, 2), ""), MaxT),
     AlertThresholds(Detector(TCPA, WCVTable(5, 1, 6, 2), ""), 1),
     AlertThresholds(Detector(NODET, WCVTable(0, 0, 0, 0), ""), 1)}

InitAlerter ==
    /\ so \in {IVect3(x, y, z) : x \in PosX, y \in PosY, z \in PosZ}
    /\ vo \in {IVect3(x, y, z) : x \in VelX, y \in {0}, z \in VelZ}
    /\ si = Intruder[1] /\ vi = Intruder[2]
    /\ \A d \in AlerterDetectors : ExactRoots(d, so, vo, si, vi)
    /\ detector = Detector(NODET, WCVTable(0, 0, 0, 0), "")
    /\ B = 0 /\ T = 0
    /\ pc = "build"
    /\ levels = <<>> /\ alert = -1
    /\ DetectIdle
    /\ ContainsIdle
    /\ CopyIdle
    /\ OtherIdle

\* addLevel(thr)
AddLevel ==
    /\ pc = "build"
    /\ Len(levels) < MaxLevels
    /\ \E thr \in Thresholds : levels' = Alerter_addLevel(levels, thr)
    /\ UNCHANGED <<inputs, pc, detectVars, containsVars, alert, copyVars, otherVars>>

\* alertLevel for the encounter (so,vo,si,vi)
AlertLevel ==
    /\ pc = "build"
    /\ alert' = alertLevel(levels, so, vo, si, vi)
    /\ pc' = "alerted"
    /\ UNCHANGED <<inputs, detectVars, containsVars, levels, copyVars, otherVars>>

NextAlerter ==
    \/ AddLevel
    \/ AlertLevel

SpecAlerter == InitAlerter /\ [][NextAlerter]_vars

-----------------------------------------------------------------------------
(* Specification SpecCopy: detector objects are copied, assigned, changed   *)
(* through their setters and destroyed.                                     *)

\* The parameter sets given to setParameters.
Params ==
    { [k \in {"id"} |-> ""],
      [k \in {"WCV_TTHR", "id"} |-> IF k = "id" THEN "a" ELSE R(6)] }

InitCopy ==
    /\ \E cls \in {TAUMOD, TCPA, HZ} :
          /\ objs = [o \in ObjIds |->
                        IF o = 1
                        THEN [alive |-> TRUE, cls |-> cls, table |-> WCVTable(5, 2, 6, 2),
                              id |-> "", vertical |-> 1]
                        ELSE NoObject]
          /\ verts = [v \in VertIds |-> IF v = 1 THEN VerticalOf(cls) ELSE Free]
    /\ nops = 0
    /\ so = IVect3(0, 0, 0) /\ vo = IVect3(0, 0, 0)
    /\ si = Intruder[1] /\ vi = Intruder[2]
    /\ detector = Detector(NODET, WCVTable(0, 0, 0, 0), "")
    /\ B = 0 /\ T = 0
    /\ pc = "heap"
    /\ DetectIdle
    /\ ContainsIdle
    /\ AlerterIdle
    /\ OtherIdle

Alive == {o \in ObjIds : objs[o].alive}

copyFrame == <<inputs, pc, detectVars, containsVars, alerterVars, otherVars>>

\* c = d.copy(), c at a free address
Copy ==
    /\ pc = "heap" /\ nops < MaxOps /\ nops' = nops + 1
    /\ \E d \in Alive : \E c \in ObjIds \ Alive :
          LET h == copy(Heap(objs, verts), d, c)
          IN  objs' = h.objs /\ verts' = h.verts
    /\ UNCHANGED copyFrame

\* a = b (operator=, which is copyFrom), for objects of one class
Assign ==
    /\ pc = "heap" /\ nops < MaxOps /\ nops' = nops + 1
    /\ \E a \in Alive : \E b \in Alive :
          /\ objs[a].cls = objs[b].cls
          /\ LET h == copyFrom(Heap(objs, verts), a, b)
             IN  objs' = h.objs /\ verts' = h.verts
    /\ UNCHANGED copyFrame

SetDTHR ==
    /\ pc = "heap" /\ nops < MaxOps /\ nops' = nops + 1
    /\ \E o \in Alive : objs' = [objs EXCEPT ![o] = setDTHR(@, R(3))]
    /\ UNCHANGED <<copyFrame, verts>>

SetZTHR ==
    /\ pc = "heap" /\ nops < MaxOps /\ nops' = nops + 1
    /\ \E o \in Alive : objs' = [objs EXCEPT ![o] = setZTHR(@, R(1))]
    /\ UNCHANGED <<copyFrame, verts>>

SetTTHR ==
    /\ pc = "heap" /\ nops < MaxOps /\ nops' = nops + 1
    /\ \E o \in Alive : objs' = [objs EXCEPT ![o] = setTTHR(@, R(0))]
    /\ UNCHANGED <<copyFrame, verts>>

SetTCOA ==
    /\ pc = "heap" /\ nops < MaxOps /\ nops' = nops + 1
    /\ \E o \in Alive : objs' = [objs EXCEPT ![o] = setTCOA(@, R(1))]
    /\ UNCHANGED <<copyFrame, verts>>

SetWCVTable ==
    /\ pc = "heap" /\ nops < MaxOps /\ nops' = nops + 1
    /\ \E o \in Alive : objs' = [objs EXCEPT ![o] = setWCVTable(@, WCVTable(5, 2, 6, 2))]
    /\ UNCHANGED <<copyFrame, verts>>

SetIdentifier ==
    /\ pc = "heap" /\ nops < MaxOps /\ nops' = nops + 1
    /\ \E o \in Alive : objs' = [objs EXCEPT ![o] = setIdentifier(@, "a")]
    /\ UNCHANGED <<copyFrame, verts>>

SetParameters ==
    /\ pc = "heap" /\ nops < MaxOps /\ nops' = nops + 1
    /\ \E o \in Alive : \E p \in Params : objs' = [objs EXCEPT ![o] = setParameters(@, p)]
    /\ UNCHANGED <<copyFrame, verts>>

\* delete o
Destroy ==
    /\ pc = "heap" /\ nops < MaxOps /\ nops' = nops + 1
    /\ \E o \in Alive :
          LET h == destroy(Heap(objs, verts), o)
          IN  objs' = h.objs /\ verts' = h.verts
    /\ UNCHANGED copyFrame

NextCopy ==
    \/ Copy
    \/ Assign
    \/ SetDTHR
    \/ SetZTHR
    \/ SetTTHR
    \/ SetTCOA
    \/ SetWCVTable
    \/ SetIdentifier
    \/ SetParameters
    \/ Destroy

SpecCopy == InitCopy /\ [][NextCopy]_vars

-----------------------------------------------------------------------------
(* Properties of specification Spec.                                        *)

\* The relative state projected linearly to time t is a violation for d.
ViolationAt(d, t) == WCV_violation(d, linear(so, vo, t), vo, linear(si, vi, t), vi)

\* The linear projection at time t is inside the cylinder (DTHR, ZTHR) of d.
InCylinderAt(d, t) ==
    LET s == V3Sub(linear(so, vo, t), linear(si, vi, t))
    IN  RLe(sqv(vect2(s)), RSq(d.table.DTHR)) /\ RLe(RAbs(s.z), d.table.ZTHR)

\* The instants of [lo,hi] at which a property of the projected state is
\* compared with a reported interval c: a half-second grid, the reported
\* ends and points just outside them, and the crossing times of the
\* horizontal and vertical thresholds.
SampleTimes(d, lo, hi, c) ==
    LET s2 == V2Sub(vect2(so), vect2(si))
        v2 == V2Sub(vect2(vo), vect2(vi))
        sz == RSub(so.z, si.z)
        vz == RSub(vo.z, vi.z)
        eighth == <<1, 8>>
        cand == {<<k, 2>> : k \in 2 * lo .. 2 * hi}
                \cup {c.time_in, c.time_out, RSub(c.time_in, eighth), RAdd(c.time_out, eighth),
                      RDiv(RAdd(c.time_in, c.time_out), R(2))}
                \cup {Horizontal_Theta_D(s2, v2, e, d.table.DTHR) : e \in {-1, 1}}
                \cup {Vertical_Theta_H(sz, vz, e, d.table.ZTHR) : e \in {-1, 1}}
                \cup {Vertical_Theta_H(sz, vz, -1, RMul(RAbs(vz), d.table.TCOA))}
    IN  {Norm(x[1], x[2]) : x \in {y \in cand : IsFinite(y) /\ RLe(R(lo), y) /\ RLe(y, R(hi))}}

\* Which results the calls made so far have produced.
HasCd == pc \in {"detected", "swapped", "left", "done"}
HasSwap == pc \in {"swapped", "left", "done"}
HasLeft == pc \in {"left", "done"}
HasRight == pc = "done"

Within(t, c) == RLe(c.time_in, t) /\ RLe(t, c.time_out)

\* C1: for a WCV_TAUMOD detector and a window 0 <= B < T, conflictDetection
\* reports time_in <= time_out exactly when the projected state is a
\* violation at some t in [B,T], and then [time_in, time_out] lies in [B,T]
\* and is exactly the set of instants of violation.
C1_TightInterval ==
    (pc = "detected" /\ detector.cls = TAUMOD /\ B < T) =>
        LET S == SampleTimes(detector, B, T, cd)
        IN  /\ conflict(cd) <=> \E t \in S : ViolationAt(detector, t)
            /\ conflict(cd) => RLe(R(B), cd.time_in) /\ RLe(cd.time_out, R(T))
            /\ conflict(cd) => \A t \in S : ViolationAt(detector, t) <=> Within(t, cd)

\* C1 witness: a TAUMOD conflict that begins and ends strictly inside the window.
C1_Witness ==
    /\ pc = "detected" /\ detector.cls = TAUMOD /\ B < T
    /\ detector.table.TTHR # Zero
    /\ conflict(cd) /\ RLt(R(B), cd.time_in) /\ RLt(cd.time_in, cd.time_out)
    /\ RLt(cd.time_out, R(T))

WindowSane(c, lo, hi) ==
    \/ RGt(c.time_in, c.time_out)
    \/ RLe(R(lo), c.time_in) /\ RLe(c.time_in, c.time_out) /\ RLe(c.time_out, R(hi))

\* C2: for every detector and every window 0 <= B <= T the reported interval
\* is empty (in > out) or satisfies B <= in <= out <= T.
C2_WindowSanity ==
    /\ HasCd => WindowSane(cd, B, T)
    /\ HasSwap => WindowSane(cdSwap, B, T)
    /\ HasLeft => WindowSane(cdLeft, B, T1)
    /\ HasRight => WindowSane(cdRight, T1, T)

\* C2 witness: a WCV_TCPA conflict clipped at both ends of its window.
C2_Witness ==
    /\ pc = "detected" /\ detector.cls = TCPA /\ 0 < B /\ B < T
    /\ cd.time_in = R(B) /\ cd.time_out = R(T)

\* C5: swapping ownship and intruder leaves (time_in, time_out) unchanged.
C5_Symmetry ==
    HasSwap => cdSwap.time_in = cd.time_in /\ cdSwap.time_out = cd.time_out

\* C5 witness: a swapped call that reports a conflict strictly inside the window.
C5_Witness ==
    /\ HasSwap /\ detector.cls # NODET /\ conflict(cdSwap)
    /\ RLt(R(B), cdSwap.time_in) /\ RLt(cdSwap.time_out, R(T))

\* C6: no conflict on [B,T1] and none on [T1,T] implies none on [B,T].
C6_WindowComposition ==
    (pc = "done" /\ ~conflict(cdLeft) /\ ~conflict(cdRight)) => ~conflict(cd)

\* C6 witness: both halves of a split window are reported empty by a WCV
\* detector whose projected state comes into violation only after T.
C6_Witness ==
    /\ pc = "done" /\ detector.cls # NODET
    /\ ~conflict(cdLeft) /\ ~conflict(cdRight)
    /\ \E k \in 1..4 : ViolationAt(detector, R(T + k))

IsCylinder(d) == d.cls = TAUMOD /\ d.table.TTHR = Zero /\ d.table.TCOA = Zero

\* C8: a WCV_TAUMOD detector with TTHR = TCOA = 0 reports a violation iff the
\* state is inside the cylinder (DTHR, ZTHR), and on every window [B,T] it
\* reports a conflict iff the projected state is inside the cylinder at some
\* instant of the window, the reported interval being exactly those instants.
C8_Cylinder ==
    /\ (pc = "violation" /\ IsCylinder(detector)) =>
            (viol <=> InCylinderAt(detector, Zero))
    /\ (pc = "detected" /\ IsCylinder(detector)) =>
            LET S == SampleTimes(detector, B, T, cd)
            IN  /\ conflict(cd) <=> \E t \in S : InCylinderAt(detector, t)
                /\ conflict(cd) => \A t \in S : InCylinderAt(detector, t) <=> Within(t, cd)

-----------------------------------------------------------------------------
(* Properties of specification SpecContains.                                *)

\* C7: when detector.contains(detB) is true, every violation of detB is a
\* violation of detector, and every conflict interval of detB on [B,T] lies
\* within the conflict interval of detector on [B,T]; a WCV_TAUMOD may
\* contain a WCV_TCPA.
C7_Containment ==
    /\ (pc \in {"violB", "cdA", "cdB"} /\ contained) => (violB => viol)
    /\ (pc = "cdB" /\ contained /\ conflict(cdB)) =>
            /\ conflict(cd)
            /\ RLe(cd.time_in, cdB.time_in) /\ RLe(cdB.time_out, cd.time_out)

\* C7 witness: a WCV_TAUMOD contains a WCV_TCPA whose conflict interval
\* begins strictly later than its own.
C7_Witness ==
    /\ pc = "cdB" /\ contained
    /\ detector.cls = TAUMOD /\ detB.cls = TCPA
    /\ conflict(cdB) /\ RLt(cdB.time_in, cdB.time_out)
    /\ RLt(cd.time_in, cdB.time_in)

-----------------------------------------------------------------------------
(* Properties of specification SpecAlerter.                                 *)

\* Level i reports a non-empty conflict interval on its own alerting window.
LevelDetects(i) == conflict(levelDetection(levels, i, so, vo, si, vi))

\* The levels are ordered: each level's detector contains the detector of the
\* next more severe level, and its alerting time is at least that level's.
OrderedLevels ==
    \A i \in 1..(Len(levels) - 1) :
        /\ contains(levels[i].detector, levels[i + 1].detector)
        /\ levels[i].alerting_time >= levels[i + 1].alerting_time

PositiveAlertingTimes == \A i \in 1..Len(levels) : levels[i].alerting_time > 0

C4_MostSevereLevel ==
    pc = "alerted" =>
        LET triggered == {i \in 1..Len(levels) : LevelDetects(i)}
        IN  /\ alert \in 0..Len(levels)
            /\ triggered = {} <=> alert = 0
            /\ triggered # {} => alert \in triggered /\ \A i \in triggered : i <= alert

\* C4 witness: level 1 triggers, level 2 does not, and the alert level is 1.
C4_Witness ==
    /\ pc = "alerted" /\ Len(levels) = 2
    /\ LevelDetects(1) /\ ~LevelDetects(2) /\ alert = 1

-----------------------------------------------------------------------------
(* Properties of specification SpecCopy.                                    *)

\* Every object owns a live vertical model of its class's kind, and no two
\* objects own the same one.
OwnVerticals ==
    /\ \A o \in Alive :
          /\ objs[o].vertical # 0
          /\ verts[objs[o].vertical] = VerticalOf(objs[o].cls)
    /\ \A o1 \in Alive : \A o2 \in Alive :
          o1 # o2 => objs[o1].vertical # objs[o2].vertical

\* An object that comes into existence in a step has the class, table,
\* identifier and kind of vertical model of an object that existed before.
CopyEqualsSource ==
    \A c \in ObjIds :
        (~objs[c].alive /\ objs'[c].alive) =>
            \E d \in Alive :
                /\ objs'[c].cls = objs[d].cls
                /\ objs'[c].table = objs[d].table
                /\ objs'[c].id = objs[d].id
                /\ verts'[objs'[c].vertical] = verts[objs[d].vertical]

\* A step changes the fields of at most one object; every other object keeps
\* its class, table, identifier and vertical model.
OthersUnchanged ==
    \E o \in ObjIds :
        \A q \in ObjIds \ {o} :
            /\ objs'[q] = objs[q]
            /\ objs[q].alive => verts'[objs[q].vertical] = verts[objs[q].vertical]

\* C9: a copy has the class, table, identifier and vertical model of its
\* source; afterwards a call of a setter (or any other operation) on one
\* object leaves every other object unchanged, and no two objects ever
\* share a vertical-model object.
C9_CopyIndependent ==
    [](OwnVerticals) /\ [][CopyEqualsSource /\ OthersUnchanged]_vars

\* C9 witness: a copy and its source, both live, whose tables and
\* identifiers have been set apart.
C9_Witness ==
    /\ Alive = {1, 2}
    /\ objs[1].cls = TCPA
    /\ objs[1].table.DTHR # objs[2].table.DTHR
    /\ objs[1].table.TCOA # objs[2].table.TCOA
    /\ objs[1].id # objs[2].id

-----------------------------------------------------------------------------
(* Specification SpecEquals: two detector objects, of any class; fresh      *)
(* copies of them; o.equals(p) on a pair of them.                           *)

\* A detector object of class cls whose vertical model is at address v.
EqObject(cls, tab, id, v) ==
    [alive |-> TRUE, cls |-> cls, table |-> tab, id |-> id, vertical |-> v]

\* The objects SpecEquals starts from, the vertical model at address v.
EqObjects(v) ==
    {EqObject(cls, tab, id, v) :
        cls \in {TAUMOD, TCPA, HZ},
        tab \in {WCVTable(5, 2, 6, 2), WCVTable(5, 1, 6, 2)},
        id \in {"", "a"}}
    \cup {EqObject(NODET, WCVTable(0, 0, 0, 0), "", 0)}

InitEquals ==
    /\ \E o1 \in EqObjects(1) : \E o2 \in EqObjects(2) \cup {NoObject} :
          /\ objs = [o \in ObjIds |-> IF o = 1 THEN o1 ELSE IF o = 2 THEN o2 ELSE NoObject]
          /\ verts = [v \in VertIds |->
                        IF v = 1 /\ o1.vertical = 1 THEN VerticalOf(o1.cls)
                        ELSE IF v = 2 /\ o2.vertical = 2 THEN VerticalOf(o2.cls)
                        ELSE Free]
    /\ nops = 0
    /\ so = IVect3(0, 0, 0) /\ vo = IVect3(0, 0, 0)
    /\ si = Intruder[1] /\ vi = Intruder[2]
    /\ detector = Detector(NODET, WCVTable(0, 0, 0, 0), "")
    /\ B = 0 /\ T = 0
    /\ pc = "equals"
    /\ EqualsIdle
    /\ CallIdle
    /\ WalkerIdle
    /\ DetectIdle
    /\ ContainsIdle
    /\ AlerterIdle

\* c = d.copy(), c at a free address
FreshCopy ==
    /\ pc = "equals"
    /\ \E d \in Alive : \E c \in ObjIds \ Alive :
          LET h == copy(Heap(objs, verts), d, c)
          IN  objs' = h.objs /\ verts' = h.verts
    /\ UNCHANGED <<inputs, pc, detectVars, containsVars, alerterVars, nops, equalsVars, callVars,
                   walkerVars>>

\* a.equals(b)
Equals ==
    /\ pc = "equals"
    /\ \E a \in Alive : \E b \in Alive :
          /\ equal' = equals(Heap(objs, verts), a, b)
          /\ eqThis' = a /\ eqObj' = b
    /\ pc' = "compared"
    /\ UNCHANGED <<inputs, detectVars, containsVars, alerterVars, copyVars, callVars, walkerVars>>

NextEquals ==
    \/ FreshCopy
    \/ Equals

SpecEquals == InitEquals /\ [][NextEquals]_vars

\* The two objects have the same class and identical parameters.
SameDetector(a, b) == a.cls = b.cls /\ a.table = b.table /\ a.id = b.id

\* C11: equals returns TRUE exactly when the two detector objects have the
\* same class, the same table and the same identifier; in particular every
\* detector, NoDetector included, equals itself and a fresh copy of itself.
C11_Equality ==
    pc = "compared" => (equal <=> SameDetector(objs[eqThis], objs[eqObj]))

\* The part of C11 the code satisfies: equals called on a WCV detector.
C11_EqualityWCV ==
    pc = "compared" /\ objs[eqThis].cls # NODET
        => (equal <=> SameDetector(objs[eqThis], objs[eqObj]))

-----------------------------------------------------------------------------
(* Kinematics and Velocity.  Angles, turn times and the positions reached   *)
(* by a turn are reals of the form r + p*pi with r and p rational, held as  *)
(* the pair <<r, p>>; every other quantity is a rational.  The sine, the    *)
(* cosine and the arc tangent are computed where they are exact: at the     *)
(* multiples of pi/2 and on the axes.                                       *)

Half == <<1, 2>>

PiNum(r, p) == <<r, p>>
PiR(r) == <<r, Zero>>
PiAngle(p) == <<Zero, p>>
M_PI == PiAngle(R(1))
PiNaN == <<NaN, NaN>>
PiIsNaN(a) == ~IsFinite(a[1]) \/ ~IsFinite(a[2])
PiAdd(a, b) == IF PiIsNaN(a) \/ PiIsNaN(b) THEN PiNaN
               ELSE <<RAdd(a[1], b[1]), RAdd(a[2], b[2])>>
PiNeg(a) == IF PiIsNaN(a) THEN PiNaN ELSE <<RNeg(a[1]), RNeg(a[2])>>
PiSub(a, b) == PiAdd(a, PiNeg(b))
\* k*a and a/k for a rational k
PiScal(k, a) == IF PiIsNaN(a) \/ ~IsFinite(k) THEN PiNaN
                ELSE <<RMul(k, a[1]), RMul(k, a[2])>>
PiDiv(a, k) == IF PiIsNaN(a) \/ ~IsFinite(k) \/ k = Zero THEN PiNaN
               ELSE <<RDiv(a[1], k), RDiv(a[2], k)>>

\* 333/106 < pi < 355/113
PiLo == <<333, 106>>
PiHi == <<355, 113>>

\* The sign of r + p*pi: decided by the two bounds of pi.
PiSign(a) ==
    LET lo == RAdd(a[1], RMul(a[2], PiLo))
        hi == RAdd(a[1], RMul(a[2], PiHi))
    IN  CASE a[1] = Zero /\ a[2] = Zero -> 0
          [] RGt(lo, Zero) /\ RGt(hi, Zero) -> 1
          [] RLt(lo, Zero) /\ RLt(hi, Zero) -> -1

PiLt(a, b) == ~PiIsNaN(a) /\ ~PiIsNaN(b) /\ PiSign(PiSub(b, a)) = 1
PiLe(a, b) == ~PiIsNaN(a) /\ ~PiIsNaN(b) /\ PiSign(PiSub(b, a)) >= 0
PiGe(a, b) == PiLe(b, a)
PiGt(a, b) == PiLt(b, a)

\* floor of a finite rational
RFloor(a) == a[1] \div a[2]

\* Util::to_2pi: the angle brought into [0, 2*pi)
to_2pi(a) ==
    IF PiIsNaN(a) THEN PiNaN
    ELSE IF a[1] = Zero THEN PiAngle(RSub(a[2], R(2 * RFloor(RDiv(a[2], R(2))))))
    ELSE CASE PiGe(a, PiR(Zero)) /\ PiLt(a, PiAngle(R(2))) -> a

\* Util::to_pi: the angle brought into (-pi, pi]
to_pi(a) ==
    IF PiGt(to_2pi(a), M_PI) THEN PiSub(to_2pi(a), PiAngle(R(2))) ELSE to_2pi(a)

\* sin and cos, at the multiples of pi/2
QuarterTurns(a) == RMul(R(2), to_2pi(a)[2])
PiSin(a) ==
    IF PiIsNaN(a) THEN NaN
    ELSE CASE a[1] = Zero /\ QuarterTurns(a) \in {R(0), R(2)} -> R(0)
           [] a[1] = Zero /\ QuarterTurns(a) = R(1) -> R(1)
           [] a[1] = Zero /\ QuarterTurns(a) = R(3) -> R(-1)
PiCos(a) ==
    IF PiIsNaN(a) THEN NaN
    ELSE CASE a[1] = Zero /\ QuarterTurns(a) \in {R(1), R(3)} -> R(0)
           [] a[1] = Zero /\ QuarterTurns(a) = R(0) -> R(1)
           [] a[1] = Zero /\ QuarterTurns(a) = R(2) -> R(-1)

\* Util::atan2_safe(y, x): atan2(y, x), and 0 at the origin; on the axes.
atan2_safe(y, x) ==
    IF ~IsFinite(y) \/ ~IsFinite(x) THEN PiNaN
    ELSE CASE y = Zero /\ RGe(x, Zero) -> PiAngle(R(0))
           [] y = Zero /\ RLt(x, Zero) -> PiAngle(R(1))
           [] x = Zero /\ RGt(y, Zero) -> PiAngle(Half)
           [] x = Zero /\ RLt(y, Zero) -> PiAngle(RNeg(Half))

\* Util::sqrt_safe
sqrt_safe(x) == Sqrt(Util_max(x, Zero))

\* Util::root: the root (-b + eps*sqrt(b^2 - 4ac))/(2a) of a*x^2 + b*x + c.
Util_root(a, b, c, eps) ==
    IF a = Zero /\ b = Zero THEN NaN
    ELSE IF a = Zero THEN RDiv(RNeg(c), b)
    ELSE IF RGe(RSq(b), RMul(R(4), RMul(a, c)))
         THEN RDiv(RAdd(RNeg(b), RMul(R(eps), sqrt_safe(RSub(RSq(b), RMul(R(4), RMul(a, c)))))),
                   RMul(R(2), a))
    ELSE NaN

Pair(a, b) == [first |-> a, second |-> b]
Tuple5(a, b, c, d, e) == [first |-> a, second |-> b, third |-> c, fourth |-> d, fifth |-> e]

\* ---- Velocity: the cached track and ground speed, and the components.
Velocity(trk, gs, vx, vy, vz) == [trk |-> trk, gs |-> gs, x |-> vx, y |-> vy, z |-> vz]

\* Velocity(vx, vy, vz) and Velocity::mkVxyz
mkVxyz(vx, vy, vz) ==
    Velocity(atan2_safe(vx, vy), sqrt_safe(RAdd(RSq(vx), RSq(vy))), vx, vy, vz)

Velocity_ZERO == Velocity(PiAngle(R(0)), Zero, Zero, Zero, Zero)
INVALIDV == Velocity(PiNaN, NaN, NaN, NaN, NaN)
Vect3_INVALID == Vect3(NaN, NaN, NaN)
Vect3_isInvalid(v) == IsNaN(v.x) \/ IsNaN(v.y) \/ IsNaN(v.z)
Velocity_isInvalid(v) == Vect3_isInvalid(v)

trkgs2vx(trk, gs) == RMul(gs, PiSin(trk))
trkgs2vy(trk, gs) == RMul(gs, PiCos(trk))
mkTrkGsVs(trk, gs, vs) == Velocity(trk, gs, trkgs2vx(trk, gs), trkgs2vy(trk, gs), vs)
mkVs(v, vs) == Velocity(v.trk, v.gs, v.x, v.y, vs)
mkZ(s, nz) == Vect3(s.x, s.y, nz)

StateVector(s, v, t) == [s |-> s, v |-> v, t |-> t]

\* ---- Level-out
V1(voz, a1, t) == RAdd(voz, RMul(a1, t))
S1(voz, a1, t) == RAdd(RMul(voz, t), RMul(RMul(Half, a1), RSq(t)))
T3(voz, a1) == RDiv(RNeg(voz), a1)
S3(voz, a1) == S1(voz, a1, T3(voz, a1))

\* The second half of vsLevelOutTimesBase: the times, given the climb rate
\* in the direction of the target, the two accelerations and the time t1 to
\* reach the climb rate.
vsLevelOutTimesBase_degenerate(v0z, S, a1, a2, t1) ==
    Tuple5(t1, t1, RAdd(t1, T3(V1(v0z, a1, t1), a2)), a1, a2)

vsLevelOutTimesBase_root(root1, root2) ==
    IF RLt(root1, Zero) THEN root2
    ELSE IF RLt(root2, Zero) THEN root1
    ELSE Util_min(root1, root2)

\* vsLevelOutTimesBase_normal without the final deceleration
vsLevelOutTimesBase_normal_NoDecel(t1, t2, climbRate, a1, a2) ==
    Tuple5(t1, RAdd(t1, t2), RAdd(t1, t2), a1, a2)

vsLevelOutTimesBase_normal(t1, t2, climbRate, a1, a2) ==
    Tuple5(t1, RAdd(t1, t2), RAdd(RAdd(t1, t2), T3(climbRate, a2)), a1, a2)

vsLevelOutTimesBase_from(v0z, S, climbRate, a1, a2, t1) ==
    IF RGe(RAbs(S), RAbs(RAdd(S1(v0z, a1, t1), S3(V1(v0z, a1, t1), a2))))
    THEN vsLevelOutTimesBase_normal(t1,
             RDiv(RSub(RSub(S, S1(v0z, a1, t1)), S3(V1(v0z, a1, t1), a2)), climbRate),
             climbRate, a1, a2)
    ELSE LET aa == RMul(RMul(Half, a1), RSub(R(1), RDiv(a1, a2)))
             bb == RMul(v0z, RSub(R(1), RDiv(a1, a2)))
             cc == RSub(RDiv(RNeg(RSq(v0z)), RMul(R(2), a2)), S)
         IN  vsLevelOutTimesBase_degenerate(v0z, S, a1, a2,
                 vsLevelOutTimesBase_root(Util_root(aa, bb, cc, 1), Util_root(aa, bb, cc, -1)))

\* vsLevelOutTimesBase_climbRate with the climb rate never raised
vsLevelOutTimesBase_climbRate_Fixed(altDir, v0z, climbRate, allowClimbRateChange) ==
    RMul(R(altDir), RAbs(climbRate))

\* The climb rate vsLevelOutTimesBase aims at: towards the target, and no
\* slower than the current vertical speed when the rate may change.
vsLevelOutTimesBase_climbRate(altDir, v0z, climbRate, allowClimbRateChange) ==
    IF allowClimbRateChange
    THEN RMul(R(altDir), Util_max(RAbs(RMul(R(altDir), RAbs(climbRate))), RAbs(v0z)))
    ELSE RMul(R(altDir), RAbs(climbRate))

vsLevelOutTimesBase_accel(v0z, S, climbRate, a1, a2) ==
    vsLevelOutTimesBase_from(v0z, S, climbRate, a1, a2, RDiv(RSub(climbRate, v0z), a1))

vsLevelOutTimesBase_rate(s0z, v0z, climbRate, targetAlt, accelup, acceldown) ==
    vsLevelOutTimesBase_accel(v0z, RSub(targetAlt, s0z), climbRate,
        IF RGe(climbRate, v0z) THEN accelup ELSE acceldown,
        IF RGe(targetAlt, s0z) THEN acceldown ELSE accelup)

vsLevelOutTimesBase(s0z, v0z, climbRate, targetAlt, accelup, acceldown, allowClimbRateChange) ==
    vsLevelOutTimesBase_rate(s0z, v0z,
        vsLevelOutTimesBase_climbRate(IF RGe(targetAlt, s0z) THEN 1 ELSE -1, v0z, climbRate,
                                      allowClimbRateChange),
        targetAlt, accelup, acceldown)

vsLevelOutTimes_shift(dt, ot) ==
    Tuple5(RAdd(dt, ot.first), RAdd(dt, ot.second), RAdd(dt, ot.third), ot.fourth, ot.fifth)

vsLevelOutTimes(s0z, v0z, climbRate, targetAlt, accelup, acceldown, allowClimbRateChange) ==
    LET sgnv == IF RGe(v0z, Zero) THEN 1 ELSE -1
        altDir == IF RGe(targetAlt, s0z) THEN 1 ELSE -1
        S == RSub(targetAlt, s0z)
        a1 == IF RGe(targetAlt, s0z) THEN accelup ELSE acceldown
        a2 == IF RGe(targetAlt, s0z) THEN acceldown ELSE accelup
    IN  IF sgnv = altDir \/ v0z = Zero
        THEN IF RGe(RAbs(S), RAbs(S3(v0z, a2)))
             THEN vsLevelOutTimesBase(s0z, v0z, climbRate, targetAlt, accelup, acceldown,
                                      allowClimbRateChange)
             ELSE vsLevelOutTimes_shift(RDiv(RNeg(v0z), a2),
                      vsLevelOutTimesBase(RAdd(s0z, S3(v0z, a2)), Zero, climbRate, targetAlt,
                                          accelup, acceldown, allowClimbRateChange))
        ELSE vsLevelOutTimes_shift(RDiv(RNeg(v0z), a1),
                 vsLevelOutTimesBase(RAdd(s0z, S3(v0z, a1)), Zero, climbRate, targetAlt,
                                     accelup, acceldown, allowClimbRateChange))

\* The altitude and the vertical speed at time t of the profile.
vsLevelOutCalc(soz, voz, targetAlt, a1, a2, t1, t2, t3, t) ==
    IF RLe(t, t1)
    THEN Pair(RAdd(soz, S1(voz, a1, t)), RAdd(voz, RMul(a1, t)))
    ELSE IF RLe(t, t2)
    THEN Pair(RAdd(RAdd(soz, S1(voz, a1, t1)), RMul(V1(voz, a1, t1), RSub(t, t1))),
              RAdd(voz, RMul(a1, t1)))
    ELSE IF RLe(t, t3)
    THEN Pair(RAdd(RAdd(RAdd(soz, S1(voz, a1, t1)), RMul(V1(voz, a1, t1), RSub(t2, t1))),
                   S1(V1(voz, a1, t1), a2, RSub(t, t2))),
              RAdd(RAdd(voz, RMul(a1, t1)), RMul(a2, RSub(t, t2))))
    ELSE Pair(targetAlt, Zero)

vsLevelOutCalculation_from(s0, v0, vsL, t) ==
    Pair(mkZ(linear(s0, v0, t), vsL.first), mkVs(v0, vsL.second))

vsLevelOutCalculation(s0, v0, targetAlt, a1, a2, t1, t2, t3, t) ==
    vsLevelOutCalculation_from(s0, v0,
        vsLevelOutCalc(s0.z, v0.z, targetAlt, a1, a2, t1, t2, t3, t), t)

vsLevelOutCalculation_params(s0, v0, targetAlt, p, t) ==
    vsLevelOutCalculation(s0, v0, targetAlt, p.fourth, p.fifth, p.first, p.second, p.third, t)

\* vsLevelOut(sv0, t, climbRate, targetAlt, accelUp, accelDown, allowClimbRateChange)
vsLevelOut(s0, v0, t, climbRate, targetAlt, accelUp, accelDown, allowClimbRateChange) ==
    vsLevelOutCalculation_params(s0, v0, targetAlt,
        vsLevelOutTimes(s0.z, v0.z, climbRate, targetAlt, accelUp, accelDown,
                        allowClimbRateChange), t)

vsLevelOutFinal_from(s0, v0, targetAlt, qV) ==
    IF RLt(qV.first, Zero)
    THEN StateVector(Vect3_INVALID, INVALIDV, R(-1))
    ELSE StateVector(vsLevelOutCalculation_params(s0, v0, targetAlt, qV, qV.third).first,
                     vsLevelOutCalculation_params(s0, v0, targetAlt, qV, qV.third).second,
                     qV.third)

\* vsLevelOutFinal(sv0, climbRate, targetAlt, a, allowClimbRateChange)
vsLevelOutFinal(s0, v0, climbRate, targetAlt, a, allowClimbRateChange) ==
    vsLevelOutFinal_from(s0, v0, targetAlt,
        vsLevelOutTimes(s0.z, v0.z, climbRate, targetAlt, a, RNeg(a), allowClimbRateChange))

\* vsLevelOutFinal(sv0, climbRate, targetAlt, a)
vsLevelOutFinal_Base(s0, v0, climbRate, targetAlt, a) ==
    vsLevelOutFinal_from(s0, v0, targetAlt,
        vsLevelOutTimesBase(s0.z, v0.z, climbRate, targetAlt, a, RNeg(a), TRUE))

vsLevelOutTime_from(qV) == IF RLt(qV.first, Zero) THEN R(-1) ELSE qV.third

\* vsLevelOutTime(sv0, climbRate, targetAlt, a, allowClimbRateChange)
vsLevelOutTime(s0, v0, climbRate, targetAlt, a, allowClimbRateChange) ==
    vsLevelOutTime_from(
        vsLevelOutTimes(s0.z, v0.z, climbRate, targetAlt, a, RNeg(a), allowClimbRateChange))

-----------------------------------------------------------------------------
(* The specifications of the kinematics and velocity functions: one call of *)
(* one function on arguments drawn from a grid.                             *)

\* The variables of the detector specifications where they are not used.
InputsIdle ==
    /\ so = IVect3(0, 0, 0) /\ vo = IVect3(0, 0, 0)
    /\ si = Intruder[1] /\ vi = Intruder[2]
    /\ detector = Detector(NODET, WCVTable(0, 0, 0, 0), "")
    /\ B = 0 /\ T = 0

DetectorsIdle ==
    /\ InputsIdle
    /\ DetectIdle
    /\ ContainsIdle
    /\ AlerterIdle
    /\ CopyIdle
    /\ EqualsIdle
    /\ WalkerIdle

callFrame ==
    <<inputs, pc, detectVars, containsVars, alerterVars, copyVars, equalsVars, walkerVars, args>>

\* the call fn(args) returns r
Call(f, r) ==
    /\ fn = ""
    /\ fn' = f
    /\ ret' = r
    /\ UNCHANGED callFrame

-----------------------------------------------------------------------------
(* Specification SpecLevelOut: the level-out functions.                     *)

MaxVs == 2
MaxDAlt == 6
MaxAccel == 2

\* accelUp and accelDown: the proper signs, and one pair of the wrong signs
LevelOutAccels ==
    {<<R(u), R(-d)>> : u \in 1..MaxAccel, d \in 1..MaxAccel} \cup {<<R(-1), R(1)>>}

LevelOutArgs ==
    {[s0 |-> IVect3(0, 0, 0), v0 |-> mkVxyz(R(0), R(1), R(vz)), climbRate |-> R(cr),
      targetAlt |-> R(ta), accelUp |-> ac[1], accelDown |-> ac[2],
      allowClimbRateChange |-> al] :
        vz \in (-MaxVs)..MaxVs, cr \in 0..MaxVs, ta \in (-MaxDAlt)..MaxDAlt,
        ac \in LevelOutAccels, al \in BOOLEAN}

\* The radicand of the roots vsLevelOutTimesBase takes (0 where it takes none).
BaseRadicand_from(v0z, S, climbRate, a1, a2, t1) ==
    IF RGe(RAbs(S), RAbs(RAdd(S1(v0z, a1, t1), S3(V1(v0z, a1, t1), a2)))) \/ a1 = a2
    THEN Zero
    ELSE RSub(RSq(RMul(v0z, RSub(R(1), RDiv(a1, a2)))),
              RMul(R(4), RMul(RMul(RMul(Half, a1), RSub(R(1), RDiv(a1, a2))),
                              RSub(RDiv(RNeg(RSq(v0z)), RMul(R(2), a2)), S))))

BaseRadicand_rate(s0z, v0z, climbRate, targetAlt, a1, a2) ==
    BaseRadicand_from(v0z, RSub(targetAlt, s0z), climbRate, a1, a2,
                      RDiv(RSub(climbRate, v0z), a1))

BaseRadicand_climbRate(s0z, v0z, climbRate, targetAlt, accelup, acceldown) ==
    BaseRadicand_rate(s0z, v0z, climbRate, targetAlt,
        IF RGe(climbRate, v0z) THEN accelup ELSE acceldown,
        IF RGe(targetAlt, s0z) THEN acceldown ELSE accelup)

BaseRadicand(s0z, v0z, climbRate, targetAlt, accelup, acceldown, allow) ==
    BaseRadicand_climbRate(s0z, v0z,
        vsLevelOutTimesBase_climbRate(IF RGe(targetAlt, s0z) THEN 1 ELSE -1, v0z, climbRate, allow),
        targetAlt, accelup, acceldown)

RationalRoot(x) == RLt(x, Zero) \/ IsSquare(x)

\* The arguments on which every root of the level-out functions is rational.
LevelOutRational(a) ==
    /\ RationalRoot(BaseRadicand(a.s0.z, a.v0.z, a.climbRate, a.targetAlt, a.accelUp,
                                 a.accelDown, a.allowClimbRateChange))
    /\ RationalRoot(BaseRadicand(a.s0.z, a.v0.z, a.climbRate, a.targetAlt, a.accelUp,
                                 a.accelDown, TRUE))
    /\ \A ac \in {a.accelUp, a.accelDown} :
          RationalRoot(BaseRadicand(RAdd(a.s0.z, S3(a.v0.z, ac)), Zero, a.climbRate,
                                    a.targetAlt, a.accelUp, a.accelDown,
                                    a.allowClimbRateChange))

InitLevelOut ==
    /\ args \in {a \in LevelOutArgs : LevelOutRational(a)}
    /\ fn = "" /\ ret = <<>>
    /\ pc = "levelout"
    /\ DetectorsIdle

\* The step after which a probe of the profile is repeated.
LevelOutEps == <<1, 64>>

\* The times at which vsLevelOut is probed: the phase boundaries and around.
LevelOutProbes(p) ==
    {R(0), R(1)} \cup
    {t \in {p.first, p.second, p.third, RAdd(p.third, R(1))} : IsFinite(t)}

args_times ==
    vsLevelOutTimes(args.s0.z, args.v0.z, args.climbRate, args.targetAlt,
                    args.accelUp, args.accelDown, args.allowClimbRateChange)

args_vsLevelOut(t) ==
    vsLevelOut(args.s0, args.v0, t, args.climbRate, args.targetAlt,
               args.accelUp, args.accelDown, args.allowClimbRateChange)

LevelOutTimes ==
    /\ pc = "levelout"
    /\ Call("vsLevelOutTimes", args_times)

\* vsLevelOut at a time t, and again at t + LevelOutEps
LevelOut ==
    /\ pc = "levelout"
    /\ \E t \in LevelOutProbes(args_times) :
          Call("vsLevelOut",
               [t |-> t, sv |-> args_vsLevelOut(t),
                svNext |-> args_vsLevelOut(RAdd(t, LevelOutEps))])

LevelOutFinal ==
    /\ pc = "levelout"
    /\ args.accelDown = RNeg(args.accelUp)
    /\ Call("vsLevelOutFinal",
            vsLevelOutFinal(args.s0, args.v0, args.climbRate, args.targetAlt,
                            args.accelUp, args.allowClimbRateChange))

LevelOutFinalBase ==
    /\ pc = "levelout"
    /\ args.accelDown = RNeg(args.accelUp)
    /\ Call("vsLevelOutFinal_Base",
            vsLevelOutFinal_Base(args.s0, args.v0, args.climbRate, args.targetAlt,
                                 args.accelUp))

LevelOutTime ==
    /\ pc = "levelout"
    /\ args.accelDown = RNeg(args.accelUp)
    /\ Call("vsLevelOutTime",
            vsLevelOutTime(args.s0, args.v0, args.climbRate, args.targetAlt,
                           args.accelUp, args.allowClimbRateChange))

NextLevelOut ==
    \/ LevelOutTimes
    \/ LevelOut
    \/ LevelOutFinal
    \/ LevelOutFinalBase
    \/ LevelOutTime

SpecLevelOut == InitLevelOut /\ [][NextLevelOut]_vars

\* The returned times are feasible: finite, and 0 <= T1 <= T2 <= T3.
Feasible(p) ==
    /\ IsFinite(p.first) /\ IsFinite(p.second) /\ IsFinite(p.third)
    /\ RLe(Zero, p.first) /\ RLe(p.first, p.second) /\ RLe(p.second, p.third)

\* The profile has arrived: altitude targetAlt, vertical speed 0.
Levelled(sv) == sv.first.z = args.targetAlt /\ sv.second.z = Zero

\* Between the two probes the altitude and the vertical speed move by no
\* more than the largest speed and the largest acceleration allow.
NoJump(sv, svNext) ==
    /\ RLe(RAbs(RSub(svNext.first.z, sv.first.z)),
           RMul(R(MaxVs + MaxAccel), LevelOutEps))
    /\ RLe(RAbs(RSub(svNext.second.z, sv.second.z)),
           RMul(R(MaxAccel), LevelOutEps))

\* C14: when the returned times are feasible (0 <= T1 <= T2 <= T3), the
\* level-out profile at t = T3 and at every later t has altitude targetAlt
\* and vertical speed 0, vsLevelOutFinal returns that state with time T3, and
\* the profile does not jump in altitude or vertical speed at T1 and T2.
C14_LevelOutArrives ==
    /\ fn = "vsLevelOut" /\ Feasible(args_times)
           => /\ RGe(ret.t, args_times.third) => Levelled(ret.sv) /\ Levelled(ret.svNext)
              /\ ret.t \in {args_times.first, args_times.second} => NoJump(ret.sv, ret.svNext)
    /\ fn = "vsLevelOutFinal" /\ Feasible(args_times)
           => /\ ret.s.z = args.targetAlt /\ ret.v.z = Zero
              /\ ret.t = args_times.third

\* The first case of vsLevelOutTimes: the speed is towards the target (or
\* zero) and the aircraft can stop before it.
SameDirection ==
    /\ (RGe(args.v0.z, Zero) <=> RGe(args.targetAlt, args.s0.z)) \/ args.v0.z = Zero
    /\ RGe(RAbs(RSub(args.targetAlt, args.s0.z)),
           RAbs(S3(args.v0.z, IF RGe(args.targetAlt, args.s0.z) THEN args.accelDown
                              ELSE args.accelUp)))

\* Witness of C14: an overshoot (same direction, cannot stop before the
\* target) probed at T3, with three phases of positive length.
C14_Witness ==
    /\ fn = "vsLevelOut" /\ Feasible(args_times)
    /\ (RGe(args.v0.z, Zero) <=> RGe(args.targetAlt, args.s0.z))
    /\ ~SameDirection
    /\ RLt(Zero, args_times.first) /\ RLt(args_times.first, args_times.second)
    /\ RLt(args_times.second, args_times.third)
    /\ ret.t = args_times.third

\* The other cases of C14 happen as well: a normal climb, a wrong-direction
\* start and a profile without a constant-rate phase, each probed at T1.
C14_NormalProbed ==
    (fn = "vsLevelOut" /\ Feasible(args_times) /\ SameDirection
      /\ RLt(args_times.first, args_times.second) /\ RLt(Zero, args_times.first)
      /\ ret.t = args_times.first)
C14_WrongDirectionProbed ==
    (fn = "vsLevelOut" /\ Feasible(args_times)
      /\ ~(RGe(args.v0.z, Zero) <=> RGe(args.targetAlt, args.s0.z)) /\ args.v0.z # Zero
      /\ ret.t = args_times.first)
C14_DegenerateProbed ==
    (fn = "vsLevelOut" /\ Feasible(args_times) /\ SameDirection
      /\ args_times.first = args_times.second /\ RLt(Zero, args_times.first)
      /\ ret.t = args_times.first)


\* The vertical speed is towards the target, the aircraft can stop before
\* the target, the speed is above the climb rate, and the accelerations have
\* their proper signs.
ExceedsClimbRate ==
    /\ SameDirection /\ args.v0.z # Zero
    /\ RGt(RAbs(args.v0.z), RAbs(args.climbRate))
    /\ RGt(args.accelUp, Zero) /\ RLt(args.accelDown, Zero)

\* the times computed for the climb rate cr, which may not change
args_times_at(cr) ==
    vsLevelOutTimes(args.s0.z, args.v0.z, cr, args.targetAlt,
                    args.accelUp, args.accelDown, FALSE)

\* C15 as stated: when the vertical speed exceeds climbRate, the profile is
\* computed with climbRate raised to |vz| if allowClimbRateChange, and the
\* computation returns infeasible (T1 < 0, an invalid state) otherwise.
C15_OvershootPolicy ==
    /\ fn = "vsLevelOutTimes" /\ ExceedsClimbRate
           => IF args.allowClimbRateChange
              THEN ret = args_times_at(RAbs(args.v0.z))
              ELSE RLt(ret.first, Zero)
    /\ fn = "vsLevelOutFinal" /\ ExceedsClimbRate /\ ~args.allowClimbRateChange
           => Vect3_isInvalid(ret.s) /\ RLt(ret.t, Zero)

\* C15, amended: when the vertical speed is towards the target and exceeds
\* climbRate, and the aircraft can stop before the target, the profile is
\* computed with climbRate raised to |vz| (so T1 = 0) if
\* allowClimbRateChange; otherwise the vertical speed is first brought to
\* climbRate, in the time T1 = (|vz| - climbRate)/|a1| > 0, and the result is
\* never infeasible: the times are feasible when climbRate > 0 and
\* vsLevelOutFinal returns the levelled state.
C15_ClimbRatePolicy ==
    /\ fn = "vsLevelOutTimes" /\ ExceedsClimbRate
           => IF args.allowClimbRateChange
              THEN ret = args_times_at(RAbs(args.v0.z)) /\ ret.first = Zero
              ELSE /\ ret.first = RDiv(RSub(RAbs(args.v0.z), RAbs(args.climbRate)),
                                       RAbs(ret.fourth))
                   /\ RGt(ret.first, Zero)
                   /\ args.climbRate # Zero => Feasible(ret)
    /\ fn = "vsLevelOutFinal" /\ ExceedsClimbRate /\ ~args.allowClimbRateChange
                              /\ args.climbRate # Zero
           => ~Vect3_isInvalid(ret.s) /\ RGe(ret.t, Zero) /\ ret.s.z = args.targetAlt

C15_Witness ==
    /\ fn = "vsLevelOutTimes" /\ ExceedsClimbRate /\ ~args.allowClimbRateChange
    /\ args.climbRate # Zero
    /\ RGt(ret.first, Zero) /\ RLt(ret.first, ret.second)

\* the other branch of C15 happens as well
C15_WitnessAllow ==
    /\ fn = "vsLevelOutTimes" /\ ExceedsClimbRate /\ args.allowClimbRateChange
    /\ ret.first = Zero /\ RLt(ret.first, ret.second)

-----------------------------------------------------------------------------
(* Velocity: the methods that make a velocity from another.                 *)

\* Util::almost_equals, on the exact values of the model
almost_equals(a, b) == REq(a, b)

Velocity_Neg_NoWrap(v) ==
    Velocity(PiAdd(v.trk, M_PI), v.gs, RNeg(v.x), RNeg(v.y), RNeg(v.z))

Velocity_Neg(v) ==
    Velocity(to_pi(PiAdd(v.trk, M_PI)), v.gs, RNeg(v.x), RNeg(v.y), RNeg(v.z))

Velocity_Add(v, w) ==
    IF almost_equals(v.x, RNeg(w.x)) /\ almost_equals(v.y, RNeg(w.y))
    THEN Velocity(v.trk, Zero, Zero, Zero, RAdd(v.z, w.z))
    ELSE mkVxyz(RAdd(v.x, w.x), RAdd(v.y, w.y), RAdd(v.z, w.z))

Velocity_Sub(v, w) ==
    IF almost_equals(v.x, w.x) /\ almost_equals(v.y, w.y)
    THEN Velocity(v.trk, Zero, Zero, Zero, RSub(v.z, w.z))
    ELSE mkVxyz(RSub(v.x, w.x), RSub(v.y, w.y), RSub(v.z, w.z))

mkAddTrk_rotate(v, atrk, s, c) ==
    Velocity(to_pi(PiAdd(v.trk, atrk)), v.gs,
             RAdd(RMul(v.x, c), RMul(v.y, s)),
             RAdd(RMul(RNeg(v.x), s), RMul(v.y, c)), v.z)

mkAddTrk(v, atrk) == mkAddTrk_rotate(v, atrk, PiSin(atrk), PiCos(atrk))

mkTrk(v, trk) == mkTrkGsVs(trk, v.gs, v.z)

mkGs_scale(v, ags, scal) == Velocity(v.trk, ags, RMul(v.x, scal), RMul(v.y, scal), v.z)

\* mkGs with the track forgotten at zero ground speed
mkGs_ResetTrack(v, ags) ==
    IF RLt(ags, Zero) THEN INVALIDV
    ELSE IF ags = Zero THEN mkVxyz(Zero, Zero, v.z)
    ELSE IF RGt(v.gs, Zero) THEN mkGs_scale(v, ags, RDiv(ags, v.gs))
    ELSE mkTrkGsVs(v.trk, ags, v.z)

mkGs(v, ags) ==
    IF RLt(ags, Zero) THEN INVALIDV
    ELSE IF RGt(v.gs, Zero) THEN mkGs_scale(v, ags, RDiv(ags, v.gs))
    ELSE mkTrkGsVs(v.trk, ags, v.z)

-----------------------------------------------------------------------------
(* Specification SpecVelocity: a velocity is constructed, and velocities    *)
(* are made from it by the methods of Velocity, MaxVelOps times.            *)

MaxGs == 2
MaxVelOps == 1

\* the tracks given to mkTrkGsVs, mkTrk and mkAddTrk: multiples of pi/2
\* from -pi to 2*pi
Tracks == {PiAngle(<<q, 2>>) : q \in {-1, 1, 3}} \cup {PiAngle(R(q)) : q \in -1..2}

\* the horizontal vectors on the axes
AxisVects == {Vect2(R(x), R(0)) : x \in (-MaxGs)..MaxGs} \cup
             {Vect2(R(0), R(y)) : y \in (-MaxGs)..MaxGs}

OnAxis(x, y) ==
    /\ x = Zero \/ y = Zero
    /\ RLe(RAbs(x), R(MaxGs)) /\ RLe(RAbs(y), R(MaxGs))

VerticalSpeeds == {R(0), R(1)}

\* No method has been applied yet: the value is the one constructed.
Constructed(f, a) ==
    /\ fn = f
    /\ args = [v |-> Velocity_ZERO, p |-> a, n |-> 0]

InitVelocity ==
    /\ \/ Constructed("Velocity", <<>>) /\ ret = Velocity_ZERO
       \/ \E h \in AxisVects : \E z \in VerticalSpeeds :
             Constructed("mkVxyz", <<h.x, h.y, z>>) /\ ret = mkVxyz(h.x, h.y, z)
       \/ \E trk \in Tracks : \E g \in (-1)..MaxGs : \E z \in VerticalSpeeds :
             Constructed("mkTrkGsVs", <<trk, R(g), z>>) /\ ret = mkTrkGsVs(trk, R(g), z)
    /\ pc = "velocity"
    /\ DetectorsIdle

\* v.f(p) is the new value
Method(f, p, r) ==
    /\ pc = "velocity"
    /\ args.n < MaxVelOps
    /\ fn' = f
    /\ args' = [v |-> ret, p |-> p, n |-> args.n + 1]
    /\ ret' = r
    /\ UNCHANGED <<inputs, pc, detectVars, containsVars, alerterVars, copyVars, equalsVars,
                   walkerVars>>

Neg == Method("Neg", <<>>, Velocity_Neg(ret))

Add ==
    \E h \in AxisVects : \E z \in VerticalSpeeds :
        /\ ~Velocity_isInvalid(ret) => OnAxis(RAdd(ret.x, h.x), RAdd(ret.y, h.y))
        /\ Method("Add", Vect3(h.x, h.y, z), Velocity_Add(ret, Vect3(h.x, h.y, z)))

Sub ==
    \E h \in AxisVects : \E z \in VerticalSpeeds :
        /\ ~Velocity_isInvalid(ret) => OnAxis(RSub(ret.x, h.x), RSub(ret.y, h.y))
        /\ Method("Sub", Vect3(h.x, h.y, z), Velocity_Sub(ret, Vect3(h.x, h.y, z)))

MkAddTrk == \E atrk \in Tracks : Method("mkAddTrk", atrk, mkAddTrk(ret, atrk))

MkTrk == \E trk \in Tracks : Method("mkTrk", trk, mkTrk(ret, trk))

MkGs == \E g \in (-1)..MaxGs : Method("mkGs", R(g), mkGs(ret, R(g)))

MkVs == \E z \in VerticalSpeeds : Method("mkVs", z, mkVs(ret, z))

NextVelocity ==
    \/ Neg
    \/ Add
    \/ Sub
    \/ MkAddTrk
    \/ MkTrk
    \/ MkGs
    \/ MkVs

SpecVelocity == InitVelocity /\ [][NextVelocity]_vars

\* The cached track and ground speed agree with the components.
Agrees(v) == v.x = trkgs2vx(v.trk, v.gs) /\ v.y = trkgs2vy(v.trk, v.gs)

\* track in [0, 2*pi), ground speed >= 0, both agreeing with (vx, vy)
CompassInvariant(v) ==
    /\ PiGe(v.trk, PiAngle(R(0))) /\ PiLt(v.trk, PiAngle(R(2)))
    /\ RGe(v.gs, Zero)
    /\ Agrees(v)

\* track in [-pi, pi], ground speed >= 0, both agreeing with (vx, vy)
TrackInvariant(v) ==
    /\ PiGe(v.trk, PiAngle(R(-1))) /\ PiLe(v.trk, M_PI)
    /\ RGe(v.gs, Zero)
    /\ Agrees(v)

\* C16 as stated: every velocity produced by the constructors and by Neg,
\* Add, Sub, mkAddTrk, mkTrk, mkGs and mkVs has its cached track in
\* [0, 2*pi) and its ground speed >= 0, agreeing with (vx, vy).
C16_VelocityInvariant ==
    /\ fn \in {"Velocity", "mkVxyz"} => CompassInvariant(ret)
    /\ fn \in {"Neg", "Add", "Sub", "mkAddTrk", "mkTrk", "mkGs", "mkVs"}
       /\ CompassInvariant(args.v) /\ ~Velocity_isInvalid(ret)
           => CompassInvariant(ret)

\* C16, amended: the cached track is in [-pi, pi].  Every velocity produced
\* by Velocity() and Velocity(vx, vy, vz), and by Neg, Add, Sub, mkAddTrk,
\* mkVs and mkGs (of a ground speed >= 0) from a velocity that has the
\* property, has its cached track in [-pi, pi] and its ground speed >= 0,
\* agreeing with (vx, vy); mkTrkGsVs and mkTrk store the track they are
\* given, and their result has the property when that track is in [-pi, pi]
\* (and the ground speed given to mkTrkGsVs is >= 0).
C16_TrackInvariant ==
    /\ fn \in {"Velocity", "mkVxyz"} => TrackInvariant(ret)
    /\ fn = "mkTrkGsVs" /\ TrackInvariant(mkTrkGsVs(args.p[1], R(1), Zero)) /\ RGe(args.p[2], Zero)
           => TrackInvariant(ret)
    /\ fn \in {"Neg", "Add", "Sub", "mkAddTrk", "mkVs"} /\ TrackInvariant(args.v)
           => TrackInvariant(ret)
    /\ fn = "mkGs" /\ TrackInvariant(args.v) /\ RGe(args.p, Zero) => TrackInvariant(ret)
    /\ fn = "mkTrk" /\ TrackInvariant(args.v) /\ TrackInvariant(mkTrkGsVs(args.p, R(1), Zero))
           => TrackInvariant(ret)
    /\ fn \in {"mkTrkGsVs", "mkTrk"} => ret.trk = (IF fn = "mkTrk" THEN args.p ELSE args.p[1])

\* Witness of C16: Neg of a velocity heading south (track pi) of positive
\* ground speed, made by a method: the track wraps to 0.
C16_Witness ==
    /\ fn = "Neg" /\ TrackInvariant(args.v) /\ args.n = MaxVelOps
    /\ args.v.trk = M_PI /\ RGt(args.v.gs, Zero) /\ ret.trk = PiAngle(R(0))

\* C17: for a valid velocity v of ground speed g, v.mkGs(0) has ground
\* speed 0 and the track and vertical speed of v, and v.mkGs(0).mkGs(g) is
\* v; the results of Add and Sub whose horizontal components cancel have
\* ground speed 0 and the track of the receiver.
C17_TrackPreserved ==
    /\ fn = "mkGs" /\ args.p = Zero /\ TrackInvariant(args.v)
           => /\ ret.gs = Zero /\ ret.trk = args.v.trk /\ ret.z = args.v.z
              /\ mkGs(ret, args.v.gs) = args.v
    /\ fn \in {"Add", "Sub"} /\ TrackInvariant(args.v) /\ ret.x = Zero /\ ret.y = Zero
           => ret.gs = Zero /\ ret.trk = args.v.trk

\* Witness of C17: mkGs(0) of a velocity of positive ground speed whose
\* track is not 0.
C17_Witness ==
    /\ fn = "mkGs" /\ args.p = Zero /\ TrackInvariant(args.v)
    /\ RGt(args.v.gs, Zero) /\ args.v.trk # PiAngle(R(0))
    /\ mkGs(ret, args.v.gs) = args.v

\* the cancellation of C17 happens as well
C17_WitnessCancel ==
    /\ fn = "Sub" /\ TrackInvariant(args.v) /\ RGt(args.v.gs, Zero)
    /\ args.v.trk # PiAngle(R(0)) /\ ret.x = Zero /\ ret.y = Zero

-----------------------------------------------------------------------------
(* Kinematics: the linear projection and the turn at a constant rate.  The  *)
(* positions have coordinates of the form r + p*pi.                         *)

PiVect3(s) == Vect3(PiR(s.x), PiR(s.y), PiR(s.z))

\* Vect3::linear
Vect3_linear(s, v, t) ==
    Vect3(PiAdd(s.x, PiScal(v.x, t)), PiAdd(s.y, PiScal(v.y, t)), PiAdd(s.z, PiScal(v.z, t)))

\* Kinematics::linear(so, vo, t)
Kinematics_linear(s0, v0, t) == Pair(Vect3_linear(s0, v0, t), v0)

\* Kinematics::linear(sv0, t)
Kinematics_linear_pair(sv0, t) == Kinematics_linear(sv0.first, sv0.second, t)

turnOmega_to(s0, v0, t, omega, nv) ==
    Pair(Vect3(PiAdd(s0.x, PiR(RDiv(RSub(v0.y, nv.y), omega))),
               PiAdd(s0.y, PiR(RDiv(RAdd(RNeg(v0.x), nv.x), omega))),
               PiAdd(s0.z, PiScal(v0.z, t))),
         nv)

turnOmega(s0, v0, t, omega) ==
    IF almost_equals(omega, Zero) THEN Kinematics_linear(s0, v0, t)
    ELSE turnOmega_to(s0, v0, t, omega, mkAddTrk(v0, PiScal(omega, t)))

\* turnUntilTimeOmega that keeps turning after turnTime
turnUntilTimeOmega_NoStop(s0, v0, t, turnTime, omega) == turnOmega(s0, v0, t, omega)

turnUntilTimeOmega(s0, v0, t, turnTime, omega) ==
    IF PiLe(t, turnTime) THEN turnOmega(s0, v0, t, omega)
    ELSE Kinematics_linear_pair(turnOmega(s0, v0, turnTime, omega), PiSub(t, turnTime))

-----------------------------------------------------------------------------
(* Specification SpecTurn: linear, turnOmega and turnUntilTimeOmega.        *)

MaxQuarters == 4
MaxTurnTime == 2

\* the times: whole seconds, and the multiples of pi/2 and of pi/4 seconds
TurnTimes ==
    {PiR(R(t)) : t \in 0..MaxTurnTime} \cup
    {PiAngle(<<q, 2>>) : q \in 0..MaxQuarters} \cup {PiAngle(<<1, 4>>)}

TurnRates == {R(0), R(1), R(-1), R(2), <<1, 2>>, <<-1, 2>>}

\* omega*t is a multiple of pi/2, where the sine and the cosine are exact
ExactTurn(omega, t) ==
    omega = Zero \/ (t[1] = Zero /\ RMul(RMul(R(2), omega), t[2])[2] = 1)

TurnArgs ==
    {[s0 |-> PiVect3(s), v0 |-> mkVxyz(h.x, h.y, z), t |-> t, turnTime |-> tt, omega |-> w] :
        s \in {IVect3(0, 0, 0), IVect3(1, -1, 2)}, h \in AxisVects, z \in VerticalSpeeds,
        t \in TurnTimes, tt \in TurnTimes, w \in TurnRates}

InitTurn ==
    /\ args \in {a \in TurnArgs : ExactTurn(a.omega, a.t) /\ ExactTurn(a.omega, a.turnTime)}
    /\ fn = "" /\ ret = <<>>
    /\ pc = "turn"
    /\ DetectorsIdle

Linear ==
    /\ pc = "turn"
    /\ Call("linear", Kinematics_linear(args.s0, args.v0, args.t))

TurnOmega ==
    /\ pc = "turn"
    /\ Call("turnOmega", turnOmega(args.s0, args.v0, args.t, args.omega))

TurnUntilTimeOmega ==
    /\ pc = "turn"
    /\ Call("turnUntilTimeOmega",
            turnUntilTimeOmega(args.s0, args.v0, args.t, args.turnTime, args.omega))

NextTurn ==
    \/ Linear
    \/ TurnOmega
    \/ TurnUntilTimeOmega

SpecTurn == InitTurn /\ [][NextTurn]_vars

\* the state (s + v*dt, v)
Continued(s, v, dt) ==
    Pair(Vect3(PiAdd(s.x, PiScal(v.x, dt)), PiAdd(s.y, PiScal(v.y, dt)),
               PiAdd(s.z, PiScal(v.z, dt))), v)

\* C13: with omega = 0, turnOmega(s, v, t, omega) is linear(s, v, t), the
\* state (s + v*t, v); turnUntilTimeOmega(s, v, t, turnTime, omega) is
\* turnOmega(s, v, t, omega) when t <= turnTime and, when t > turnTime, the
\* state of turnOmega at turnTime continued linearly for t - turnTime with
\* the velocity reached at turnTime.
C13_TurnIsLinear ==
    /\ fn = "linear" => ret = Continued(args.s0, args.v0, args.t)
    /\ fn = "turnOmega" /\ almost_equals(args.omega, Zero)
           => /\ ret = Kinematics_linear(args.s0, args.v0, args.t)
              /\ ret = Continued(args.s0, args.v0, args.t)
    /\ fn = "turnUntilTimeOmega" /\ PiLe(args.t, args.turnTime)
           => ret = turnOmega(args.s0, args.v0, args.t, args.omega)
    /\ fn = "turnUntilTimeOmega" /\ PiGt(args.t, args.turnTime)
           => ret = Continued(turnOmega(args.s0, args.v0, args.turnTime, args.omega).first,
                              turnOmega(args.s0, args.v0, args.turnTime, args.omega).second,
                              PiSub(args.t, args.turnTime))

\* Witness of C13: a quarter turn followed by a straight leg that moves the
\* aircraft.
C13_Witness ==
    /\ fn = "turnUntilTimeOmega" /\ PiGt(args.t, args.turnTime)
    /\ args.omega # Zero /\ args.turnTime = PiAngle(<<1, 2>>) /\ RGt(args.v0.gs, Zero)
    /\ ret.second.trk # args.v0.trk
    /\ ret # turnOmega(args.s0, args.v0, args.turnTime, args.omega)
    /\ ret # turnOmega(args.s0, args.v0, args.t, args.omega)

\* the zero-rate case of C13 happens as well
C13_WitnessZeroRate ==
    /\ fn = "turnOmega" /\ args.omega = Zero /\ RGt(args.v0.gs, Zero)
    /\ args.t # PiR(Zero) /\ ret.first # args.s0

-----------------------------------------------------------------------------
(* Kinematics: the turn by distance, the ground-speed acceleration.         *)

\* Vect2::norm and Vect2::Hat
Vect2_norm(v) == Sqrt(sqv(v))
Vect2_Hat_scale(v, n) ==
    IF n = Zero THEN Vect2(Zero, Zero) ELSE Vect2(RDiv(v.x, n), RDiv(v.y, n))
Vect2_Hat(v) == Vect2_Hat_scale(v, Vect2_norm(v))

\* Vect3::distanceH
distanceH(s, w) == Vect2_norm(V2Sub(vect2(s), vect2(w)))

\* Velocity::track(p1, p2)
Velocity_track(p1, p2) == atan2_safe(RSub(p2.x, p1.x), RSub(p2.y, p1.y))

\* Vect3::linearByDist2D
linearByDist2D(s, track, d) ==
    Vect3(RAdd(s.x, RMul(d, PiSin(track))), RAdd(s.y, RMul(d, PiCos(track))), s.z)

\* the track, seen from the centre, of the point reached after the distance d
turnByDist2D_nTrk(s0, center, dir, d, radius) ==
    PiAdd(Velocity_track(center, s0), PiDiv(PiScal(R(dir), d), radius))

turnByDist2D_at(center, dir, gsAt_d, radius, nTrk) ==
    Pair(mkZ(linearByDist2D(center, nTrk, radius), Zero),
         mkTrkGsVs(PiAdd(nTrk, PiScal(R(dir), PiAngle(Half))), gsAt_d, Zero))

\* turnByDist2D(so, center, dir, d, gsAt_d): position and velocity
turnByDist2D(s0, center, dir, d, gsAt_d) ==
    IF distanceH(s0, center) = Zero THEN Pair(s0, INVALIDV)
    ELSE turnByDist2D_at(center, dir, gsAt_d, distanceH(s0, center),
             turnByDist2D_nTrk(s0, center, dir, d, distanceH(s0, center)))

\* turnByDist2D(so, center, dir, d): position
turnByDist2D_pos(s0, center, dir, d) ==
    IF distanceH(s0, center) = Zero THEN s0
    ELSE linearByDist2D(center,
             turnByDist2D_nTrk(s0, center, dir, d, distanceH(s0, center)),
             distanceH(s0, center))

gsAccelPos(so3, vo3, tm, a) ==
    Vect3(ScalAdd(Vect2_Hat(vect2(vo3)),
                  RAdd(RMul(Vect2_norm(vect2(vo3)), tm), RMul(RMul(Half, a), RSq(tm))),
                  vect2(so3)).x,
          ScalAdd(Vect2_Hat(vect2(vo3)),
                  RAdd(RMul(Vect2_norm(vect2(vo3)), tm), RMul(RMul(Half, a), RSq(tm))),
                  vect2(so3)).y,
          RAdd(so3.z, RMul(vo3.z, tm)))

gsAccel(s0, v0, t, a) ==
    Pair(gsAccelPos(s0, v0, t, a), mkGs(v0, RAdd(v0.gs, RMul(a, t))))

accelToDist_roots(gsIn, ga, ta, tb) ==
    IF RGe(ta, Zero) THEN Pair(RAdd(gsIn, RMul(ga, ta)), ta)
    ELSE IF RGe(tb, Zero) THEN Pair(RAdd(gsIn, RMul(ga, tb)), tb)
    ELSE Pair(Zero, R(-1))

accelToDist(gsIn, dist, ga) ==
    IF \/ RLt(gsIn, Zero) \/ RLt(dist, Zero)
       \/ (RLt(ga, Zero) /\ RLt(dist, RDiv(RMul(RNeg(Half), RSq(gsIn)), ga)))
    THEN Pair(Zero, R(-1))
    ELSE accelToDist_roots(gsIn, ga,
             Util_root(RMul(Half, ga), gsIn, RNeg(dist), 1),
             Util_root(RMul(Half, ga), gsIn, RNeg(dist), -1))

-----------------------------------------------------------------------------
(* Specification SpecManeuver: one call of a maneuver function, on feasible *)
(* and on infeasible arguments.                                             *)

MaxDist == 4

\* d is a whole number of quarter turns at the distance of so from center
ExactDist(a) ==
    \/ distanceH(a.s0, a.center) = Zero
    \/ \E q \in 0..MaxQuarters : a.d = PiScal(distanceH(a.s0, a.center), PiAngle(<<q, 2>>))

TurnByDistArgs ==
    {[s0 |-> Vect3(h.x, h.y, R(1)), center |-> c, dir |-> dir, d |-> PiScal(R(r), PiAngle(<<q, 2>>)),
      gsAt_d |-> R(g)] :
        h \in AxisVects, c \in {IVect3(0, 0, 0), IVect3(1, 0, 5)}, dir \in {-1, 1},
        r \in 1..(MaxGs + 1), q \in 0..MaxQuarters, g \in 1..MaxGs}

GsAccelArgs ==
    {[s0 |-> IVect3(1, -1, 2), v0 |-> mkVxyz(h.x, h.y, z), t |-> R(t), a |-> R(a)] :
        h \in AxisVects, z \in VerticalSpeeds, t \in 0..MaxTurnTime,
        a \in (-MaxAccel)..MaxAccel}

AccelToDistArgs ==
    {[gsIn |-> R(g), dist |-> R(d), gsAccel |-> R(a)] :
        g \in (-1)..MaxGs, d \in (-1)..MaxDist, a \in (-MaxAccel)..MaxAccel}

InitManeuver ==
    /\ \/ pc = "turnByDist"
          /\ args \in {a \in TurnByDistArgs :
                          OnAxis(RSub(a.s0.x, a.center.x), RSub(a.s0.y, a.center.y))
                          /\ ExactDist(a)}
       \/ pc = "gsAccel" /\ args \in GsAccelArgs
       \/ pc = "accelToDist"
          /\ args \in {a \in AccelToDistArgs :
                          RationalRoot(RAdd(RSq(a.gsIn), RMul(RMul(R(2), a.gsAccel), a.dist)))}
       \/ pc = "levelout" /\ args \in {a \in LevelOutArgs : LevelOutRational(a)}
    /\ fn = "" /\ ret = <<>>
    /\ DetectorsIdle

TurnByDist2D ==
    /\ pc = "turnByDist"
    /\ Call("turnByDist2D", turnByDist2D(args.s0, args.center, args.dir, args.d, args.gsAt_d))

TurnByDist2DPos ==
    /\ pc = "turnByDist"
    /\ Call("turnByDist2D_pos", turnByDist2D_pos(args.s0, args.center, args.dir, args.d))

GsAccel ==
    /\ pc = "gsAccel"
    /\ Call("gsAccel", gsAccel(args.s0, args.v0, args.t, args.a))

AccelToDist ==
    /\ pc = "accelToDist"
    /\ Call("accelToDist", accelToDist(args.gsIn, args.dist, args.gsAccel))

NextManeuver ==
    \/ TurnByDist2D
    \/ TurnByDist2DPos
    \/ GsAccel
    \/ AccelToDist
    \/ LevelOut
    \/ LevelOutFinal
    \/ LevelOutFinalBase
    \/ LevelOutTime

SpecManeuver == InitManeuver /\ [][NextManeuver]_vars

\* the arguments are infeasible
AtCentre == args.s0.x = args.center.x /\ args.s0.y = args.center.y
BelowZeroSpeed == RLt(RAdd(args.v0.gs, RMul(args.a, args.t)), Zero)
StopsShort ==
    \/ RLt(args.gsIn, Zero) \/ RLt(args.dist, Zero)
    \/ /\ RLt(args.gsAccel, Zero)
       /\ RGt(args.dist, RDiv(RSq(args.gsIn), RMul(R(2), RAbs(args.gsAccel))))
    \/ args.gsAccel = Zero /\ args.gsIn = Zero /\ RGt(args.dist, Zero)
NegativeT1 == RLt(args_times.first, Zero)
NegativeT1_Base ==
    RLt(vsLevelOutTimesBase(args.s0.z, args.v0.z, args.climbRate, args.targetAlt,
                            args.accelUp, RNeg(args.accelUp), TRUE).first, Zero)

\* the result is an invalid position or velocity
InvalidState(sv) == Vect3_isInvalid(sv.first) \/ Velocity_isInvalid(sv.second)

\* C12: on infeasible arguments every maneuver function returns an invalid
\* position or velocity or a negative time: turnByDist2D with so at the
\* centre, gsAccel below zero ground speed, accelToDist with a negative
\* speed or distance or stopping short, vsLevelOutFinal and vsLevelOut when
\* T1 < 0.
C12_InfeasibleSentinel ==
    /\ fn = "turnByDist2D" /\ AtCentre => InvalidState(ret)
    /\ fn = "turnByDist2D_pos" /\ AtCentre => Vect3_isInvalid(ret)
    /\ fn = "gsAccel" /\ BelowZeroSpeed => InvalidState(ret)
    /\ fn = "accelToDist" /\ StopsShort => RLt(ret.second, Zero)
    /\ fn = "vsLevelOutFinal" /\ NegativeT1
           => (Vect3_isInvalid(ret.s) \/ Velocity_isInvalid(ret.v)) /\ RLt(ret.t, Zero)
    /\ fn = "vsLevelOutFinal_Base" /\ NegativeT1_Base
           => (Vect3_isInvalid(ret.s) \/ Velocity_isInvalid(ret.v)) /\ RLt(ret.t, Zero)
    /\ fn = "vsLevelOutTime" /\ NegativeT1 => RLt(ret, Zero)
    /\ fn = "vsLevelOut" /\ NegativeT1 => InvalidState(ret.sv)

\* The part of C12 the code satisfies: every function of SpecManeuver but
\* vsLevelOut and the turnByDist2D that returns a position.
C12_SentinelsReturned ==
    /\ fn = "turnByDist2D" /\ AtCentre => InvalidState(ret)
    /\ fn = "gsAccel" /\ BelowZeroSpeed => InvalidState(ret)
    /\ fn = "accelToDist" /\ StopsShort => RLt(ret.second, Zero)
    /\ fn = "vsLevelOutFinal" /\ NegativeT1
           => (Vect3_isInvalid(ret.s) \/ Velocity_isInvalid(ret.v)) /\ RLt(ret.t, Zero)
    /\ fn = "vsLevelOutFinal_Base" /\ NegativeT1_Base
           => (Vect3_isInvalid(ret.s) \/ Velocity_isInvalid(ret.v)) /\ RLt(ret.t, Zero)
    /\ fn = "vsLevelOutTime" /\ NegativeT1 => RLt(ret, Zero)

\* vsLevelOut called when T1 < 0 returns a state that is not invalid
C12_LevelOutOrdinary ==
    ~(fn = "vsLevelOut" /\ NegativeT1 /\ ~InvalidState(ret.sv))

\* turnByDist2D called with so at the centre returns so
C12_TurnByDistOrdinary ==
    ~(fn = "turnByDist2D_pos" /\ AtCentre /\ ret = args.s0)

-----------------------------------------------------------------------------
(* Closest approach, turn radius, unit vector.                              *)

Vect3_ZERO == IVect3(0, 0, 0)
Vect3_dot(a, b) == RAdd(RAdd(RMul(a.x, b.x), RMul(a.y, b.y)), RMul(a.z, b.z))
Vect3_sqv(a) == Vect3_dot(a, a)
Vect3_norm(a) == Sqrt(Vect3_sqv(a))

Vect3_Hat_scale(v, n) ==
    IF n = Zero THEN Vect3_ZERO ELSE Vect3(RDiv(v.x, n), RDiv(v.y, n), RDiv(v.z, n))
Vect3_Hat(v) == Vect3_Hat_scale(v, Vect3_norm(v))

Vect3_tcpa_at(s, v, nv) ==
    IF RGt(nv, Zero) THEN Util_max(Zero, RDiv(RNeg(Vect3_dot(s, v)), nv)) ELSE Zero
Vect3_tcpa_NoClamp(s0, v0, s1, v1) ==
    IF RGt(Vect3_sqv(V3Sub(v0, v1)), Zero)
    THEN RDiv(RNeg(Vect3_dot(V3Sub(s0, s1), V3Sub(v0, v1))), Vect3_sqv(V3Sub(v0, v1)))
    ELSE Zero
Vect3_tcpa(s0, v0, s1, v1) ==
    Vect3_tcpa_at(V3Sub(s0, s1), V3Sub(v0, v1), Vect3_sqv(V3Sub(v0, v1)))

\* Units::gn, 9.80665 m/s^2
Units_gn == <<196133, 20000>>
\* MAXDOUBLE, the largest double: above every value of the model
MAXDOUBLE == PINFINITY
\* std::tan(M_PI/2.0): M_PI/2.0 lies below pi/2 and its tangent is a large
\* positive double (1.6e16); a large positive number stands for it.
TAN_HALF_PI == R(1024)

\* std::abs and Util::min on angles
PiAbs(a) == IF PiIsNaN(a) THEN PiNaN ELSE IF PiSign(a) < 0 THEN PiNeg(a) ELSE a
PiMin(a, b) == IF PiLt(b, a) THEN b ELSE a
PiMax(a, b) == IF PiLt(a, b) THEN b ELSE a
\* std::tan, at 0, at +-pi/4 and at +-M_PI/2.0
PiTan(a) ==
    IF PiIsNaN(a) THEN NaN
    ELSE CASE a = PiR(Zero) -> Zero
           [] a = PiAngle(<<1, 4>>) -> R(1)
           [] a = PiAngle(<<-1, 4>>) -> R(-1)
           [] a = PiAngle(Half) -> TAN_HALF_PI
           [] a = PiAngle(RNeg(Half)) -> RNeg(TAN_HALF_PI)

turnRadius_at(speed, abank, g) ==
    IF abank = PiR(Zero) THEN MAXDOUBLE
    ELSE RDiv(RMul(speed, speed), RMul(g, PiTan(abank)))
turnRadius(speed, bank, g) ==
    turnRadius_at(speed, PiMin(PiAngle(Half), PiAbs(bank)),
                  IF RLe(g, Zero) THEN Units_gn ELSE g)

-----------------------------------------------------------------------------
(* Specification SpecGeometry: one call of tcpa, of turnRadius or of Hat.   *)

MaxCoord == 2
MaxBank == 3

Coords == {Vect3_ZERO, IVect3(1, MaxCoord, 0), IVect3(-MaxCoord, 0, 1), Vect3_INVALID}
Speeds == {Vect3_ZERO, IVect3(1, 0, 0), IVect3(0, -1, 1), IVect3(-1, 1, 0), Vect3_INVALID}
\* vectors whose norm is rational
HatArgs ==
    {Vect3_ZERO, Vect3_INVALID, IVect3(2, 1, 2), IVect3(0, -3, 4)}
        \cup {IVect3(k, 0, 0) : k \in (-MaxCoord)..MaxCoord}
        \cup {IVect3(0, 0, k) : k \in (-MaxCoord)..MaxCoord}
Banks == {PiAngle(RDiv(R(q), R(4))) : q \in (-MaxBank)..MaxBank} \cup {PiNaN}
Gravities == {R(g) : g \in (-1)..MaxCoord} \cup {NaN}
GroundSpeeds == {R(g) : g \in (-1)..MaxCoord} \cup {NaN}

InitGeometry ==
    /\ pc = "geometry"
    /\ \/ args \in {[s0 |-> a, v0 |-> b, s1 |-> c, v1 |-> d] :
                       a \in Coords, b \in Speeds, c \in Coords, d \in Speeds}
       \/ args \in {[speed |-> s, bank |-> b, g |-> g] :
                       s \in GroundSpeeds, b \in Banks, g \in Gravities}
       \/ args \in {[v |-> v] : v \in HatArgs}
    /\ fn = "" /\ ret = <<>>
    /\ DetectorsIdle

Tcpa ==
    /\ pc = "geometry" /\ "s1" \in DOMAIN args
    /\ Call("tcpa", Vect3_tcpa(args.s0, args.v0, args.s1, args.v1))

TurnRadius ==
    /\ pc = "geometry" /\ "bank" \in DOMAIN args
    /\ Call("turnRadius", turnRadius(args.speed, args.bank, args.g))

Hat ==
    /\ pc = "geometry" /\ "v" \in DOMAIN args
    /\ Call("Hat", Vect3_Hat(args.v))

NextGeometry ==
    \/ Tcpa
    \/ TurnRadius
    \/ Hat

SpecGeometry == InitGeometry /\ [][NextGeometry]_vars

\* the relative position and velocity of a tcpa call
RelPos == V3Sub(args.s0, args.s1)
RelVel == V3Sub(args.v0, args.v1)
\* max(0, -(ds.dv)/|dv|^2)
ClosestTime ==
    IF RGt(RDiv(RNeg(Vect3_dot(RelPos, RelVel)), Vect3_sqv(RelVel)), Zero)
    THEN RDiv(RNeg(Vect3_dot(RelPos, RelVel)), Vect3_sqv(RelVel))
    ELSE Zero

TcpaNonNegative ==
    fn = "tcpa" =>
        /\ RGe(ret, Zero)
        /\ RelVel # Vect3_ZERO => ret = ClosestTime
        /\ RelVel = Vect3_ZERO => ret = Zero

HatOfZero == fn = "Hat" /\ args.v = Vect3_ZERO => ret = Vect3_ZERO

C18_WitnessTurnRadius ==
    fn = "turnRadius" /\ PiGt(PiAbs(args.bank), PiAngle(Half)) /\ RGt(ret, Zero)
        /\ RLe(args.g, Zero)
C18_WitnessHatOfZero == fn = "Hat" /\ args.v = Vect3_ZERO /\ ret = Vect3_ZERO
C18_WitnessZeroVelocity == fn = "tcpa" /\ RelVel = Vect3_ZERO /\ RelPos # Vect3_ZERO
C18_WitnessDiverging ==
    fn = "tcpa" /\ RLt(RDiv(RNeg(Vect3_dot(RelPos, RelVel)), Vect3_sqv(RelVel)), Zero)
C18_WitnessNaNSpeed == fn = "turnRadius" /\ IsNaN(args.speed) /\ IsNaN(ret)
C18_WitnessZeroBank == fn = "turnRadius" /\ args.bank = PiR(Zero) /\ ret = MAXDOUBLE
C18_WitnessHat == fn = "Hat" /\ args.v # Vect3_ZERO /\ Vect3_norm(ret) = R(1)

-----------------------------------------------------------------------------
(* Kinematics: the trajectory scans, in steps of one second.                *)

\* Kinematics::accelTime
accelTime(gs0, goalGs, a) ==
    IF RSub(gs0, goalGs) = Zero \/ a = Zero THEN Zero
    ELSE RAbs(RDiv(RSub(gs0, goalGs), a))
gsAccelTime(v0, goalGs, a) == accelTime(v0.gs, goalGs, a)
vsAccelTime(v0, goalVs, a) == accelTime(v0.z, goalVs, a)

gsAccelUntil_at(s0, v0, t, a, at) ==
    IF RLe(t, at) THEN gsAccel(s0, v0, t, a)
    ELSE Pair(linear(gsAccel(s0, v0, at, a).first, gsAccel(s0, v0, at, a).second,
                     RSub(t, at)),
              gsAccel(s0, v0, at, a).second)
gsAccelUntil(s0, v0, t, goalGs, a) ==
    gsAccelUntil_at(s0, v0, t,
        RMul(R(IF RLt(goalGs, v0.gs) THEN -1 ELSE 1), RAbs(a)), gsAccelTime(v0, goalGs, a))

vsAccelPos(so3, vo3, t, a) ==
    Vect3(RAdd(so3.x, RMul(t, vo3.x)), RAdd(so3.y, RMul(t, vo3.y)),
          RAdd(RAdd(so3.z, RMul(vo3.z, t)), RMul(RMul(Half, a), RSq(t))))
vsAccel(so3, vo3, t, a) == Pair(vsAccelPos(so3, vo3, t, a), mkVs(vo3, RAdd(vo3.z, RMul(a, t))))

vsAccelUntil_at(s0, v0, t, goalVs, a, at) ==
    IF RLe(t, at) THEN vsAccel(s0, v0, t, a)
    ELSE Pair(linear(vsAccelPos(s0, v0, at, a), mkVxyz(v0.x, v0.y, goalVs), RSub(t, at)),
              mkVxyz(v0.x, v0.y, goalVs))
vsAccelUntil(s0, v0, t, goalVs, a) ==
    vsAccelUntil_at(s0, v0, t, goalVs,
        RMul(R(IF RLt(goalVs, v0.z) THEN -1 ELSE 1), RAbs(a)), vsAccelTime(v0, goalVs, RAbs(a)))

\* Util::turnDir and Util::signedTurnDelta
Util_signedTurnDelta(alpha, beta) == to_pi(PiSub(beta, alpha))
Util_turnDir(initTrack, goalTrack) ==
    IF PiGe(Util_signedTurnDelta(initTrack, goalTrack), PiR(Zero)) THEN 1 ELSE -1

\* Kinematics::turnRate, for a bank whose tangent is exact
turnRate(speed, bankAngle) ==
    IF almost_equals(speed, Zero) THEN Zero
    ELSE RDiv(RMul(Units_gn,
                   PiTan(PiMin(PiAngle(Half), PiMax(bankAngle, PiAngle(RNeg(Half)))))),
              speed)
bankAngleGoal(track, goalTrack, signedBank) ==
    PiScal(R(Util_turnDir(track, goalTrack)), signedBank)
turnRateGoal(v0, goalTrack, signedBank) ==
    turnRate(v0.gs, bankAngleGoal(v0.trk, goalTrack, signedBank))

\* Kinematics::turnTime(deltaTrack, omega) and turnTime(v0, goalTrack, signedBank)
turnTime_omega(deltaTrack, omega) ==
    IF omega = Zero THEN MAXDOUBLE ELSE PiAbs(PiDiv(deltaTrack, omega))
turnTime(v0, goalTrack, signedBank) ==
    turnTime_omega(Util_signedTurnDelta(v0.trk, goalTrack), turnRate(v0.gs, signedBank))

\* the position, with coordinates r + 0*pi, as a vector of rationals
RatVect3(p) == Vect3(p.x[1], p.y[1], p.z[1])

\* Kinematics::turnUntilTrack; t <= MAXDOUBLE for every t
turnUntilTrack_at(s0, v0, t, tt, omega) ==
    IF tt = MAXDOUBLE THEN turnOmega(PiVect3(s0), v0, PiR(t), omega)
    ELSE turnUntilTimeOmega(PiVect3(s0), v0, PiR(t), tt, omega)
turnUntilTrack_pair(sv) == Pair(RatVect3(sv.first), sv.second)
turnUntilTrack(s0, v0, t, goalTrack, signedBank) ==
    turnUntilTrack_pair(
        turnUntilTrack_at(s0, v0, t, turnTime(v0, goalTrack, signedBank),
                          turnRateGoal(v0, goalTrack, signedBank)))

-----------------------------------------------------------------------------
(* Specification SpecScan: a scan runs one iteration at a time.  fn is the  *)
(* scan, args its arguments, ret its local variables; ret.n counts the      *)
(* iterations.  The loop variable t is a double: above 2^53 the doubles are *)
(* two apart and t + 1.0 rounds back to t.  The model gives t a significand *)
(* of Significand bits, so that this happens within the bounds.  The body   *)
(* of a scan is a function of the arguments and of t: args.at[t] holds the  *)
(* distances it computes at the whole second t.                             *)

Significand == 3

RECURSIVE Pow2(_)
Pow2(k) == IF k = 0 THEN 1 ELSE 2 * Pow2(k - 1)

\* t + step, rounded to the nearest double (ties to even), for a whole t
double_inc(t) == IF RGe(t, R(Pow2(Significand))) THEN t ELSE RAdd(t, R(1))

\* the iterations are counted up to MaxIter
MaxIter == Pow2(Significand) + 3
Counted(n) == IF n < MaxIter THEN n + 1 ELSE n

StopTimes ==
    {NaN, R(-1), R(0), Half, R(1), <<5, 2>>, R(Pow2(Significand) - 1),
     R(Pow2(Significand)), R(Pow2(Significand) + 2)}

North(gs, vs) == mkVxyz(Zero, R(gs), R(vs))

\* ownship and intruder fly north, the intruder ahead of or behind the
\* ownship (Trk, bank angle 0; Gs), or above it (Vs)
TrkArgs ==
    {[s0 |-> IVect3(0, 0, 0), v0 |-> North(2, 0), nvo |-> mkVxyz(R(2), Zero, Zero),
      s1 |-> IVect3(0, y, 0), v1 |-> North(1, 0), nvi |-> mkVxyz(R(1), Zero, Zero),
      bankAngOwn |-> PiR(Zero), stopTime |-> st, D |-> R(2), H |-> R(1)] :
        y \in {4, -4}, st \in StopTimes}
GsArgs ==
    {[s0 |-> IVect3(0, 0, 0), v0 |-> North(1, 0), nvo |-> North(g, 0),
      s1 |-> IVect3(0, 4, 0), v1 |-> North(1, 0), nvi |-> North(h, 0),
      gsAccelOwn |-> R(2), gsAccelTraf |-> R(-1), stopTime |-> st, D |-> R(2), H |-> R(1)] :
        g \in {1, 3}, h \in {1, 2}, st \in StopTimes}
VsArgs ==
    {[s0 |-> IVect3(0, 0, 0), v0 |-> North(1, 0), nvo |-> North(1, g),
      s1 |-> IVect3(0, 0, 4), v1 |-> North(1, 0), nvi |-> North(1, h),
      vsAccelOwn |-> R(2), vsAccelTraf |-> R(-1), stopTime |-> st, D |-> R(1), H |-> R(2)] :
        g \in {0, 2}, h \in {0, 1}, st \in StopTimes}

\* the state of the ownship at time t, in the body of the scan f
OwnAtTm(f, a, t) ==
    CASE f \in {"testLoSTrk", "minDistBetweenTrk"} ->
             turnUntilTrack(a.s0, a.v0, t, a.nvo.trk, a.bankAngOwn)
      [] f \in {"testLoSGs", "minDistBetweenGs", "minDistBetweenGs_own"} ->
             gsAccelUntil(a.s0, a.v0, t, a.nvo.gs, a.gsAccelOwn)
      [] f \in {"testLoSVs", "minDistBetweenVs", "minDistBetweenVs_own"} ->
             vsAccelUntil(a.s0, a.v0, t, a.nvo.z, a.vsAccelOwn)

\* the state of the intruder at time t, in the body of the scan f
TrafAtTm(f, a, t) ==
    CASE f = "minDistBetweenTrk" -> turnUntilTrack(a.s1, a.v1, t, a.nvi.trk, a.bankAngOwn)
      [] f = "minDistBetweenGs" -> gsAccelUntil(a.s1, a.v1, t, a.nvi.gs, a.gsAccelTraf)
      [] f = "minDistBetweenVs" -> vsAccelUntil(a.s1, a.v1, t, a.nvi.z, a.vsAccelTraf)
      [] OTHER -> Pair(linear(a.s1, a.v1, t), a.v1)

\* dist, distH, distV, and divg = s.dot(vown.Sub(vtraf)) > 0
Distances(s, own, traf) ==
    [dist |-> Vect3_norm(s), distH |-> Vect2_norm(vect2(s)), distV |-> RAbs(s.z),
     divg |-> RGt(Vect3_dot(s, Velocity_Sub(own.second, traf.second)), Zero)]
Body(own, traf) == Distances(V3Sub(own.first, traf.first), own, traf)

Scanned(f, a) ==
    a @@ [at |-> [k \in 0..Pow2(Significand) |->
                     Body(OwnAtTm(f, a, R(k)), TrafAtTm(f, a, R(k)))]]

TestLocals == [t |-> Zero, n |-> 0, rtn |-> FALSE]
MinLocals == [t |-> Zero, n |-> 0, minDist |-> MAXDOUBLE, minDistH |-> MAXDOUBLE,
              minDistV |-> MAXDOUBLE, minT |-> R(-1)]

ScanArgs(f) ==
    CASE f \in {"testLoSTrk", "minDistBetweenTrk"} -> TrkArgs
      [] f \in {"testLoSGs", "minDistBetweenGs", "minDistBetweenGs_own"} -> GsArgs
      [] f \in {"testLoSVs", "minDistBetweenVs", "minDistBetweenVs_own"} -> VsArgs

InitScan ==
    /\ pc = "scan"
    /\ fn \in {"testLoSTrk", "testLoSGs", "testLoSVs", "minDistBetweenTrk",
               "minDistBetweenGs", "minDistBetweenGs_own",
               "minDistBetweenVs", "minDistBetweenVs_own"}
    /\ args \in {Scanned(fn, a) : a \in ScanArgs(fn)}
    /\ ret = IF fn \in {"testLoSTrk", "testLoSGs", "testLoSVs"} THEN TestLocals ELSE MinLocals
    /\ DetectorsIdle

scanFrame ==
    <<inputs, detectVars, containsVars, alerterVars, copyVars, equalsVars, walkerVars, fn, args>>

\* the loop test t < stopTime of the scan f succeeds
Loop(f) == pc = "scan" /\ fn = f /\ RLt(ret.t, args.stopTime)

\* the loop test fails and the scan returns
Return(f) ==
    /\ pc = "scan" /\ fn = f /\ ~RLt(ret.t, args.stopTime)
    /\ pc' = "returned"
    /\ UNCHANGED <<ret, scanFrame>>

\* the distances at the time t of this iteration
Now == args.at[ret.t[1]]

\* distH < D && distV < H
LoS == RLt(Now.distH, args.D) /\ RLt(Now.distV, args.H)

\* if (dist < minDist) { ... }, and t = t + step
Closer ==
    IF RLt(Now.dist, ret.minDist)
    THEN [t |-> double_inc(ret.t), n |-> Counted(ret.n), minDist |-> Now.dist,
          minDistH |-> Now.distH, minDistV |-> Now.distV, minT |-> ret.t]
    ELSE [ret EXCEPT !.t = double_inc(ret.t), !.n = Counted(ret.n)]

\* one iteration that goes on to t + step
Iterate(r) == ret' = r /\ UNCHANGED <<pc, scanFrame>>
\* one iteration that ends in break
Break(r) == ret' = r /\ pc' = "returned" /\ UNCHANGED scanFrame

TestLoS_body == [t |-> double_inc(ret.t), n |-> Counted(ret.n), rtn |-> ret.rtn \/ LoS]
MinDistBetween_body == Closer

TestLoSTrk_iteration ==
    /\ Loop("testLoSTrk")
    /\ IF LoS THEN Break([ret EXCEPT !.rtn = TRUE, !.n = Counted(ret.n)])
       ELSE Iterate([ret EXCEPT !.t = double_inc(ret.t), !.n = Counted(ret.n)])
TestLoSTrk_return == Return("testLoSTrk")

TestLoSGs_iteration == Loop("testLoSGs") /\ Iterate(TestLoS_body)
TestLoSGs_return == Return("testLoSGs")

TestLoSVs_iteration == Loop("testLoSVs") /\ Iterate(TestLoS_body)
TestLoSVs_return == Return("testLoSVs")

MinDistBetweenTrk_iteration ==
    /\ Loop("minDistBetweenTrk")
    /\ IF Now.divg THEN Break([Closer EXCEPT !.t = ret.t]) ELSE Iterate(Closer)
MinDistBetweenTrk_return == Return("minDistBetweenTrk")

MinDistBetweenGs_iteration == Loop("minDistBetweenGs") /\ Iterate(MinDistBetween_body)
MinDistBetweenGs_return == Return("minDistBetweenGs")

MinDistBetweenGs_own_iteration == Loop("minDistBetweenGs_own") /\ Iterate(MinDistBetween_body)
MinDistBetweenGs_own_return == Return("minDistBetweenGs_own")

MinDistBetweenVs_iteration == Loop("minDistBetweenVs") /\ Iterate(MinDistBetween_body)
MinDistBetweenVs_return == Return("minDistBetweenVs")

MinDistBetweenVs_own_iteration == Loop("minDistBetweenVs_own") /\ Iterate(MinDistBetween_body)
MinDistBetweenVs_own_return == Return("minDistBetweenVs_own")

NextScan ==
    \/ TestLoSTrk_iteration
    \/ TestLoSTrk_return
    \/ TestLoSGs_iteration
    \/ TestLoSGs_return
    \/ TestLoSVs_iteration
    \/ TestLoSVs_return
    \/ MinDistBetweenTrk_iteration
    \/ MinDistBetweenTrk_return
    \/ MinDistBetweenGs_iteration
    \/ MinDistBetweenGs_return
    \/ MinDistBetweenGs_own_iteration
    \/ MinDistBetweenGs_own_return
    \/ MinDistBetweenVs_iteration
    \/ MinDistBetweenVs_return
    \/ MinDistBetweenVs_own_iteration
    \/ MinDistBetweenVs_own_return

SpecScan == InitScan /\ [][NextScan]_vars

\* a call that has started keeps running: it takes its next step
SpecScanFair == SpecScan /\ WF_vars(NextScan)

\* ceil of a finite rational
RCeil(a) == -((-a[1]) \div a[2])

\* at most ceil(stopTime) iterations, none when stopTime <= 0 (or NaN)
IterationBound ==
    IF RGt(args.stopTime, Zero) THEN ret.n <= RCeil(args.stopTime) ELSE ret.n = 0

\* C19: every scan terminates, for every finite stopTime, after at most
\* ceil(stopTime) iterations, and after none when stopTime <= 0.
C19_ScanTerminates == []IterationBound /\ <>(pc = "returned")

\* every scan returns
C19_ScanReturns == <>(pc = "returned")

\* the stop times up to 2^Significand, where t + 1.0 is exact
InRange == ~RGt(args.stopTime, R(Pow2(Significand)))

\* The part of C19 the code satisfies: for a stopTime of at most 2^53 the
\* scan terminates after at most ceil(stopTime) iterations.
C19_ScanTerminatesInRange ==
    /\ [](InRange => IterationBound)
    /\ (InRange ~> pc = "returned")

\* a scan with a stopTime above 2^53 is still running after more than
\* ceil(stopTime) iterations, with t at 2^53
C19_Stuck ==
    ~(pc = "scan" /\ ~InRange /\ ret.t = R(Pow2(Significand))
        /\ ret.n > RCeil(args.stopTime))

\* the scans that ran all their iterations, and those that broke off
C19_WitnessFull == pc = "returned" /\ args.stopTime = <<5, 2>> /\ ret.n = 3
C19_WitnessNone == pc = "returned" /\ RLe(args.stopTime, Zero) /\ ret.n = 0
C19_WitnessBreak == pc = "returned" /\ RLt(ret.t, args.stopTime) /\ ret.n > 1
C19_WitnessLoS == pc = "returned" /\ fn = "testLoSGs" /\ ret.rtn
C19_WitnessMin == pc = "returned" /\ fn = "minDistBetweenVs" /\ RGt(ret.minT, Zero)

-----------------------------------------------------------------------------
(* DaidalusFileWalker: the choice of the ownship and of the traffic.  sr_   *)
(* holds the time steps of the file, each the sequence of the names of its  *)
(* aircraft, and the active step.  fn is the last method called; after      *)
(* readState, ret holds the calls it made on the Daidalus object.           *)

MaxAircraft == 2
MaxSelected == 2

Names == {"AC1", "AC2", "AC3"}

Range(f) == {f[i] : i \in DOMAIN f}

\* the aircraft of a time step: one to MaxAircraft distinct names
Steps ==
    {s \in UNION {[1..n -> Names] : n \in 1..MaxAircraft} :
        \A i, j \in DOMAIN s : s[i] = s[j] => i = j}

\* a file of two time steps
Files == {<<a, b>> : a \in Steps, b \in Steps}

\* times_.size(), sr_.size(), sr_.getName(ac)
times_size == Len(times_)
sr_size == IF sr_.active = 0 THEN 0 ELSE Len(sr_.steps[sr_.active])
sr_getName(ac) == IF ac < sr_size THEN sr_.steps[sr_.active][ac + 1] ELSE ""

\* DaidalusFileWalker(filename) and init()
InitWalker ==
    /\ pc = "walker"
    /\ sr_ \in {[steps |-> f, keys |-> <<R(0), R(1)>>, active |-> 1] : f \in Files}
    /\ index_ = 0
    /\ times_ = sr_.keys
    /\ ownship_ = ""
    /\ traffic_ = <<>>
    /\ CallIdle
    /\ InputsIdle /\ DetectIdle /\ ContainsIdle /\ AlerterIdle /\ CopyIdle /\ EqualsIdle

walkerFrame ==
    <<inputs, pc, detectVars, containsVars, alerterVars, copyVars, equalsVars, args>>

\* a method that makes no call on the Daidalus object
Called(f) == fn' = f /\ ret' = <<>> /\ UNCHANGED walkerFrame

SetOwnship ==
    /\ pc = "walker"
    /\ \E name \in Names : ownship_' = name
    /\ Called("setOwnship")
    /\ UNCHANGED <<sr_, index_, times_, traffic_>>

ResetOwnship ==
    /\ pc = "walker"
    /\ ownship_' = ""
    /\ Called("resetOwnship")
    /\ UNCHANGED <<sr_, index_, times_, traffic_>>

SelectTraffic ==
    /\ pc = "walker"
    /\ Len(traffic_) < MaxSelected
    /\ \E name \in Names : traffic_' = Append(traffic_, name)
    /\ Called("selectTraffic")
    /\ UNCHANGED <<sr_, index_, times_, ownship_>>

SelectTrafficList ==
    /\ pc = "walker"
    /\ \E names \in {<<>>} \cup {<<a>> : a \in Names} \cup {<<a, b>> : a \in Names, b \in Names} :
          /\ Len(traffic_) + Len(names) <= MaxSelected
          /\ traffic_' = traffic_ \o names
    /\ Called("selectTraffic_names")
    /\ UNCHANGED <<sr_, index_, times_, ownship_>>

ResetSelectedTraffic ==
    /\ pc = "walker"
    /\ traffic_' = <<>>
    /\ Called("resetSelectedTraffic")
    /\ UNCHANGED <<sr_, index_, times_, ownship_>>

\* the index of the ownship in the active step, -1 if none has its name
RECURSIVE readState_find(_)
readState_find(ac) ==
    IF ac >= sr_size THEN -1
    ELSE IF sr_getName(ac) = ownship_ THEN ac
    ELSE readState_find(ac + 1)
readState_own == IF ownship_ # "" THEN readState_find(0) ELSE 0

\* the calls of the loop over the aircraft of the step, from ac on
RECURSIVE readState_traffic_All(_, _)
readState_traffic_All(ac, own) ==
    IF ac >= sr_size THEN <<>>
    ELSE (IF traffic_ = <<>> \/ sr_getName(ac) \in Range(traffic_)
          THEN <<<<"addTrafficState", sr_getName(ac)>>, <<"readExtraColumns", ac>>>>
          ELSE <<>>)
         \o readState_traffic_All(ac + 1, own)
RECURSIVE readState_traffic(_, _)
readState_traffic(ac, own) ==
    IF ac >= sr_size THEN <<>>
    ELSE (IF ac = own THEN <<>>
          ELSE IF traffic_ = <<>> \/ sr_getName(ac) \in Range(traffic_)
          THEN <<<<"addTrafficState", sr_getName(ac)>>, <<"readExtraColumns", ac>>>>
          ELSE <<>>)
         \o readState_traffic(ac + 1, own)

\* the calls of readState on the Daidalus object; p_ is empty
readState_calls(own) ==
    IF own >= 0
    THEN <<<<"setOwnshipState", sr_getName(own)>>, <<"readExtraColumns", 0>>>>
             \o readState_traffic(0, own)
    ELSE <<>>

goNext_NoEnd ==
    IF 0 <= index_ + 1 /\ index_ + 1 < times_size
    THEN index_' = index_ + 1 /\ sr_' = [sr_ EXCEPT !.active = index_ + 2]
    ELSE UNCHANGED <<index_, sr_>>
\* goToTimeStep(index_ + 1), and index_ = times_.size() when it fails
goNext ==
    IF 0 <= index_ + 1 /\ index_ + 1 < times_size
    THEN index_' = index_ + 1 /\ sr_' = [sr_ EXCEPT !.active = index_ + 2]
    ELSE index_' = times_size /\ sr_' = sr_

ReadState ==
    /\ pc \in {"walker", "cursor"}
    /\ fn' = "readState"
    /\ ret' = readState_calls(readState_own)
    /\ goNext
    /\ UNCHANGED <<times_, ownship_, traffic_, walkerFrame>>

NextWalker ==
    \/ SetOwnship
    \/ ResetOwnship
    \/ SelectTraffic
    \/ SelectTrafficList
    \/ ResetSelectedTraffic
    \/ ReadState

SpecWalker == InitWalker /\ [][NextWalker]_vars

\* the names of the aircraft of the step that readState has read: readState
\* leaves index_ at the step that follows, or at the end
StepRead == sr_.steps[index_]

\* the names given to setOwnshipState and to addTrafficState
OwnshipsSet == SelectSeq(ret, LAMBDA c : c[1] = "setOwnshipState")
TrafficAdded == SelectSeq(ret, LAMBDA c : c[1] = "addTrafficState")
Ids(cs) == [i \in DOMAIN cs |-> cs[i][2]]

\* the ownship of the step: the named aircraft, the first one without a name
OwnshipOf(step) == IF ownship_ = "" THEN step[1] ELSE ownship_
\* the other aircraft of the step, the selected ones if some are selected
TrafficOf(step) ==
    SelectSeq(step, LAMBDA n : n # OwnshipOf(step) /\ (traffic_ = <<>> \/ n \in Range(traffic_)))

\* C20: readState adds no ownship and no traffic when the named ownship is
\* not in the step; otherwise the named aircraft, or the first one when no
\* name is set, becomes the ownship and the traffic added is the other
\* aircraft of the step, the selected ones when the list is not empty, and
\* never the ownship.
C20_Selection ==
    fn = "readState" =>
        IF ownship_ # "" /\ ownship_ \notin Range(StepRead)
        THEN OwnshipsSet = <<>> /\ TrafficAdded = <<>>
        ELSE /\ Ids(OwnshipsSet) = <<OwnshipOf(StepRead)>>
             /\ Ids(TrafficAdded) = TrafficOf(StepRead)
             /\ OwnshipOf(StepRead) \notin Range(Ids(TrafficAdded))

\* readState has read a step with a named ownship that is not the first
\* aircraft and is in the selected list, and has added traffic
C20_Witness ==
    /\ fn = "readState" /\ ownship_ # "" /\ ownship_ \in Range(StepRead)
    /\ ownship_ # StepRead[1] /\ ownship_ \in Range(traffic_)
    /\ TrafficAdded # <<>>
C20_WitnessAbsent ==
    fn = "readState" /\ ownship_ # "" /\ ownship_ \notin Range(StepRead) /\ ret = <<>>
C20_WitnessFirst ==
    fn = "readState" /\ ownship_ = "" /\ traffic_ = <<>> /\ Len(TrafficAdded) = Len(StepRead) - 1
        /\ Len(StepRead) > 1
C20_WitnessFiltered ==
    fn = "readState" /\ traffic_ # <<>> /\ Len(TrafficAdded) < Len(StepRead) - 1
        /\ OwnshipsSet # <<>>


\* the aircraft of the Daidalus object after the calls cs, in index order:
\* setOwnshipState puts the ownship at index 0 and drops the traffic,
\* addTrafficState appends the aircraft
RECURSIVE daa_aircraft(_)
daa_aircraft(cs) ==
    IF cs = <<>> THEN <<>>
    ELSE IF cs[Len(cs)][1] = "setOwnshipState" THEN <<cs[Len(cs)][2]>>
    ELSE IF cs[Len(cs)][1] = "addTrafficState"
         THEN Append(daa_aircraft(SubSeq(cs, 1, Len(cs) - 1)), cs[Len(cs)][2])
    ELSE daa_aircraft(SubSeq(cs, 1, Len(cs) - 1))

\* readExtraColumns(daa, sr, ac_idx), the k-th call of cs: the columns of the
\* row of daa.getAircraftStateAt(ac_idx).getId() are set on index ac_idx; no
\* aircraft at that index, no row and nothing is set
readExtraColumns(cs, k) ==
    IF cs[k][2] < Len(daa_aircraft(SubSeq(cs, 1, k)))
    THEN <<[row |-> daa_aircraft(SubSeq(cs, 1, k))[cs[k][2] + 1], ac_idx |-> cs[k][2]]>>
    ELSE <<>>

\* the rows applied by the calls of cs, in call order
RECURSIVE extraColumns(_, _)
extraColumns(cs, k) ==
    IF k > Len(cs) THEN <<>>
    ELSE (IF cs[k][1] = "readExtraColumns" THEN readExtraColumns(cs, k) ELSE <<>>)
         \o extraColumns(cs, k + 1)

Aircraft == daa_aircraft(ret)
Applied == extraColumns(ret, 1)
AppliedTo(j) == SelectSeq(Applied, LAMBDA e : e.ac_idx = j)

\* C26: after readState every aircraft of the Daidalus object has had the
\* extra columns of its own row applied to its own index exactly once, and
\* no other row is applied to it.
C26_OwnRowOnce ==
    fn = "readState" =>
        \A j \in 1..Len(Aircraft) :
            AppliedTo(j - 1) = <<[row |-> Aircraft[j], ac_idx |-> j - 1]>>

\* C26 (the part that holds): a row is only ever applied to the index of the
\* aircraft of that row.
C26_NeverAnotherRow ==
    fn = "readState" =>
        \A k \in DOMAIN Applied :
            /\ Applied[k].ac_idx < Len(Aircraft)
            /\ Applied[k].row = Aircraft[Applied[k].ac_idx + 1]

\* C26 (the part that holds): with the first aircraft as ownship and no
\* selection of traffic every aircraft gets its row exactly once.
C26_DefaultOwnRowOnce ==
    (fn = "readState" /\ ownship_ = "" /\ traffic_ = <<>>) =>
        \A j \in 1..Len(Aircraft) :
            AppliedTo(j - 1) = <<[row |-> Aircraft[j], ac_idx |-> j - 1]>>

\* a named ownship that is not the first aircraft of the step, with traffic
C26_WitnessNamed ==
    /\ fn = "readState" /\ ownship_ # "" /\ Len(Aircraft) = 2
    /\ Aircraft[1] # StepRead[1]
    /\ AppliedTo(1) = <<>> /\ Len(AppliedTo(0)) = 2
C26_WitnessDefault ==
    fn = "readState" /\ ownship_ = "" /\ traffic_ = <<>> /\ Len(Aircraft) = 2
        /\ Len(Applied) = 2


-----------------------------------------------------------------------------
(* DaidalusFileWalker: the cursor.  A file has up to MaxSteps time steps at *)
(* increasing times; every step has the aircraft AC1 and AC2.               *)

MaxSteps == 3
MaxTime == 3

TimeValues == {R(k) : k \in 0..MaxTime}
\* sr_.sequenceKeys(): the times of the file, increasing
SequenceKeys ==
    {ts \in UNION {[1..n -> TimeValues] : n \in 0..MaxSteps} :
        \A i, j \in DOMAIN ts : i < j => RLt(ts[i], ts[j])}

firstTime == IF times_ # <<>> THEN times_[1] ELSE PINFINITY
lastTime == IF times_ # <<>> THEN times_[times_size] ELSE NINFINITY
getIndex == index_
getTime == IF 0 <= index_ /\ index_ < times_size THEN times_[index_ + 1] ELSE NaN
atBeginning == index_ = 0
atEnd == index_ >= 0 /\ index_ = times_size

\* the loop of indexOfTime from i on
RECURSIVE indexOfTime_from(_, _)
indexOfTime_from(t, i) ==
    IF i < times_size - 1
    THEN IF RGe(t, times_[i + 1]) /\ RLt(t, times_[i + 2]) THEN i
         ELSE indexOfTime_from(t, i + 1)
    ELSE i
indexOfTime(t) ==
    IF RGe(t, firstTime) /\ RLe(t, lastTime) THEN indexOfTime_from(t, 0) ELSE -1

goToTimeStep_Unchecked(i) ==
    /\ index_' = i
    /\ sr_' = [sr_ EXCEPT !.active = i + 1]
\* goToTimeStep(i) and the value it returns
goToTimeStep_returns(i) == 0 <= i /\ i < times_size
goToTimeStep(i) ==
    IF 0 <= i /\ i < times_size
    THEN /\ index_' = i
         /\ sr_' = [sr_ EXCEPT !.active = i + 1]
    ELSE UNCHANGED <<index_, sr_>>

\* DaidalusFileWalker(filename) and init(), then setOwnship for some runs
InitCursor ==
    /\ pc = "cursor"
    /\ sr_ \in {[steps |-> [i \in DOMAIN ts |-> <<"AC1", "AC2">>], keys |-> ts,
                 active |-> IF ts = <<>> THEN 0 ELSE 1] : ts \in SequenceKeys}
    /\ index_ = 0
    /\ times_ = sr_.keys
    /\ ownship_ \in {"", "AC2", "AC3"}
    /\ traffic_ = <<>>
    /\ CallIdle
    /\ InputsIdle /\ DetectIdle /\ ContainsIdle /\ AlerterIdle /\ CopyIdle /\ EqualsIdle

cursorFrame == <<times_, ownship_, traffic_, walkerFrame>>

GoToTime ==
    /\ pc = "cursor"
    /\ \E t \in TimeValues \cup {RDiv(R(2 * k + 1), R(2)) : k \in (-1)..MaxTime} :
          /\ goToTimeStep(indexOfTime(t))
          /\ ret' = <<goToTimeStep_returns(indexOfTime(t))>>
    /\ fn' = "goToTime"
    /\ UNCHANGED cursorFrame

GoToTimeStep ==
    /\ pc = "cursor"
    /\ \E i \in (-1)..(MaxSteps + 1) :
          goToTimeStep(i) /\ ret' = <<goToTimeStep_returns(i)>>
    /\ fn' = "goToTimeStep"
    /\ UNCHANGED cursorFrame

GoToBeginning ==
    /\ pc = "cursor"
    /\ goToTimeStep(0)
    /\ ret' = <<>>
    /\ fn' = "goToBeginning"
    /\ UNCHANGED cursorFrame

GoToEnd ==
    /\ pc = "cursor"
    /\ goToTimeStep(times_size)
    /\ ret' = <<>>
    /\ fn' = "goToEnd"
    /\ UNCHANGED cursorFrame

GoNext ==
    /\ pc = "cursor"
    /\ goNext
    /\ fn' = "goNext"
    /\ ret' = <<>>
    /\ UNCHANGED cursorFrame

GoPrev ==
    /\ pc = "cursor"
    /\ IF ~atBeginning THEN goToTimeStep(index_ - 1) ELSE UNCHANGED <<index_, sr_>>
    /\ ret' = <<>>
    /\ fn' = "goPrev"
    /\ UNCHANGED cursorFrame

NextCursor ==
    \/ GoToTime
    \/ GoToTimeStep
    \/ GoToBeginning
    \/ GoToEnd
    \/ GoNext
    \/ GoPrev
    \/ ReadState

SpecCursor == InitCursor /\ [][NextCursor]_vars

CursorInRange ==
    /\ 0 <= index_ /\ index_ <= times_size
    /\ atEnd <=> index_ = times_size
    /\ index_ < times_size => getTime = times_[index_ + 1]
    /\ index_ = times_size => IsNaN(getTime)
CursorKept ==
    /\ (fn' \in {"goToTime", "goToTimeStep"} /\ ret' = <<FALSE>>) => index_' = index_
    /\ (fn' = "goPrev" /\ index_ = 0) => index_' = index_
    /\ (fn' = "goNext" /\ index_ = times_size) => index_' = index_

\* C27: the index is always between 0 and the number of time steps; atEnd
\* holds exactly at the number of time steps and getTime is the time of the
\* current step exactly below it; a goToTime or goToTimeStep that returns
\* false, goPrev at 0 and goNext at the end leave the index unchanged.
C27_CursorInvariant == [](pc = "cursor" => CursorInRange) /\ [][CursorKept]_vars

\* a goToTime between two time steps has moved the cursor back from the end
C27_Witness ==
    /\ fn = "goToTime" /\ ret = <<TRUE>> /\ times_size = MaxSteps
    /\ index_ = 1 /\ sr_.active = 2
C27_WitnessRefused == fn = "goToTimeStep" /\ ret = <<FALSE>> /\ index_ = 2
C27_WitnessEnd == fn = "readState" /\ atEnd /\ times_size = MaxSteps
C27_WitnessEmpty == fn = "goToTime" /\ times_size = 0 /\ ret = <<FALSE>>

\* C28: after goToEnd the walker is at the end.
C28_GoToEndAtEnd == [][fn' = "goToEnd" => atEnd']_vars

\* C28 (what the code does): goToEnd leaves the cursor where it was.
C28_GoToEndNoMove == [][fn' = "goToEnd" => index_' = index_]_vars

\* C28 (the mirror): after goToBeginning of a file with a time step the
\* walker is at the beginning.
C28_GoToBeginning == [][(fn' = "goToBeginning" /\ times_size > 0) => atBeginning']_vars

C28_WitnessNotAtEnd == fn = "goToEnd" /\ ~atEnd /\ index_ = 1
C28_WitnessBeginning == fn = "goToBeginning" /\ atBeginning /\ times_size = MaxSteps


-----------------------------------------------------------------------------
(* DaidalusProcessor: processOptions and processFile.  args holds the       *)
(* fields from_, to_, relative_ and the options given, ret the locals from  *)
(* and to of processFile, the index the walker starts at, and the times of  *)
(* the steps processTime was called for.                                    *)

MaxRelative == 2

Halves == {RDiv(R(2 * k + 1), R(2)) : k \in 0..(MaxTime - 1)}
OptionTimes == TimeValues \cup Halves
Relatives == {R(k) : k \in 0..MaxRelative}
\* the argument of --at: t, t+k, t-k, +k, -k, t*k
AtForms ==
    [t : OptionTimes, op : {"", "+", "-", "*"}, k : Relatives]
        \cup [t : {NaN}, op : {"+", "-"}, k : Relatives]

Milli == <<1, 1000>>
\* a + b in doubles for a finite b
double_add(a, b) == IF IsFinite(a) THEN RAdd(a, b) ELSE a

\* DaidalusProcessor() and DaidalusFileWalker(filename)
InitProcessor ==
    /\ pc = "processOptions"
    /\ fn = "DaidalusProcessor"
    /\ args \in {[from_ |-> R(-1), to_ |-> R(-1), relative_ |-> R(0), given |-> {},
                  at |-> [t |-> NaN, op |-> "", k |-> NaN], ownship_ |-> o] :
                    o \in {"", "AC3"}}
    /\ ret = [from |-> NaN, to |-> NaN, start |-> -1, processed |-> <<>>]
    /\ sr_ \in {[steps |-> [i \in DOMAIN ts |-> <<"AC1", "AC2">>], keys |-> ts,
                 active |-> IF ts = <<>> THEN 0 ELSE 1] : ts \in SequenceKeys}
    /\ index_ = 0
    /\ times_ = sr_.keys
    /\ ownship_ = ""
    /\ traffic_ = <<>>
    /\ InputsIdle /\ DetectIdle /\ ContainsIdle /\ AlerterIdle /\ CopyIdle /\ EqualsIdle

processorFrame ==
    <<inputs, detectVars, containsVars, alerterVars, copyVars, equalsVars, times_, traffic_>>

\* processOptions, --from t
ProcessOptions_from ==
    /\ pc = "processOptions" /\ args.given \cap {"from", "at"} = {}
    /\ \E t \in OptionTimes :
          args' = [args EXCEPT !.from_ = t, !.given = @ \cup {"from"}]
    /\ fn' = "processOptions"
    /\ UNCHANGED <<pc, ret, sr_, index_, ownship_, processorFrame>>

\* processOptions, --to t
ProcessOptions_to ==
    /\ pc = "processOptions" /\ args.given \cap {"to", "at"} = {}
    /\ \E t \in OptionTimes :
          args' = [args EXCEPT !.to_ = t, !.given = @ \cup {"to"}]
    /\ fn' = "processOptions"
    /\ UNCHANGED <<pc, ret, sr_, index_, ownship_, processorFrame>>

\* the fields after --at with the argument a
processOptions_at(p, a) ==
    IF a.op = "+" /\ IsNaN(a.t)
    THEN [p EXCEPT !.relative_ = RAdd(a.k, Milli)]
    ELSE IF a.op = "+"
    THEN [p EXCEPT !.from_ = a.t, !.relative_ = a.k]
    ELSE IF a.op = "-" /\ IsNaN(a.t)
    THEN [p EXCEPT !.relative_ = RSub(RNeg(a.k), Milli)]
    ELSE IF a.op = "-"
    THEN [p EXCEPT !.to_ = a.t, !.relative_ = RNeg(a.k)]
    ELSE IF a.op = "*"
    THEN [p EXCEPT !.from_ = RSub(a.t, a.k), !.relative_ = RMul(a.k, R(2))]
    ELSE [p EXCEPT !.from_ = a.t, !.to_ = a.t]

\* processOptions, --at
ProcessOptions_at ==
    /\ pc = "processOptions" /\ args.given = {}
    /\ \E a \in AtForms :
          args' = [processOptions_at(args, a) EXCEPT !.given = {"at"}, !.at = a]
    /\ fn' = "processOptions"
    /\ UNCHANGED <<pc, ret, sr_, index_, ownship_, processorFrame>>

\* the locals from and to of processFile before the loop
processFile_from0 == IF RLt(args.from_, Zero) THEN firstTime ELSE args.from_
processFile_to0 == IF RLt(args.to_, Zero) THEN lastTime ELSE args.to_
processFile_to ==
    IF RGt(args.relative_, Zero) THEN double_add(processFile_from0, args.relative_)
    ELSE processFile_to0
processFile_from ==
    IF RLt(args.relative_, Zero) THEN double_add(processFile_to, args.relative_)
    ELSE processFile_from0

\* processFile up to the loop
ProcessFile ==
    /\ pc = "processOptions"
    /\ ownship_' = args.ownship_
    /\ goToTimeStep(indexOfTime(processFile_from))
    /\ ret' = [ret EXCEPT !.from = processFile_from, !.to = processFile_to,
                          !.start = IF goToTimeStep_returns(indexOfTime(processFile_from))
                                    THEN indexOfTime(processFile_from) ELSE -1]
    /\ pc' = IF goToTimeStep_returns(indexOfTime(processFile_from))
                /\ RLe(processFile_from, processFile_to)
             THEN "processFile" ELSE "processed"
    /\ fn' = "processFile"
    /\ UNCHANGED <<args, processorFrame>>

\* an iteration of the loop: readState, then processTime
ProcessFile_iteration ==
    /\ pc = "processFile"
    /\ ~atEnd /\ RLe(getTime, ret.to)
    /\ goNext
    /\ ret' = [ret EXCEPT !.processed = Append(@, getTime)]
    /\ fn' = "readState"
    /\ UNCHANGED <<pc, args, ownship_, processorFrame>>

ProcessFile_return ==
    /\ pc = "processFile"
    /\ ~(~atEnd /\ RLe(getTime, ret.to))
    /\ pc' = "processed"
    /\ fn' = "processFile"
    /\ UNCHANGED <<args, ret, sr_, index_, ownship_, processorFrame>>

NextProcessor ==
    \/ ProcessOptions_from
    \/ ProcessOptions_to
    \/ ProcessOptions_at
    \/ ProcessFile
    \/ ProcessFile_iteration
    \/ ProcessFile_return

SpecProcessor == InitProcessor /\ [][NextProcessor]_vars
SpecProcessorFair == SpecProcessor /\ WF_vars(NextProcessor)


\* the time steps of the file between lo and hi, in file order
InWindow(lo, hi) == SelectSeq(times_, LAMBDA t : RLe(lo, t) /\ RLe(t, hi))
\* the time steps from index i on that are not after hi
FromIndex(i, hi) ==
    SelectSeq(SubSeq(times_, i + 1, times_size), LAMBDA t : RLe(t, hi))
WindowFrom == IF "from" \in args.given THEN args.from_ ELSE firstTime
WindowTo == IF "to" \in args.given THEN args.to_ ELSE lastTime

\* C21: with --from and --to, processTime is called once, in increasing time
\* order, for exactly the time steps whose time is in [from, to], from being
\* the first time and to the last time when not given.
C21_Window ==
    (pc = "processed" /\ "at" \notin args.given) =>
        ret.processed = InWindow(WindowFrom, WindowTo)

\* C21 (what the code does): nothing is processed unless from is between the
\* first and the last time and not after to; otherwise the steps processed
\* are those from the last step at or before from up to the last step at or
\* before to.
C21_FromStepAtOrBefore ==
    (pc = "processed" /\ "at" \notin args.given) =>
        ret.processed =
            IF RGe(WindowFrom, firstTime) /\ RLe(WindowFrom, lastTime)
                /\ RLe(WindowFrom, WindowTo)
            THEN FromIndex(indexOfTime(WindowFrom), WindowTo)
            ELSE <<>>

\* C21 (the part that holds): no step after to is processed, and the steps
\* are processed once each in increasing time order.
C21_NeverAfterTo ==
    "at" \notin args.given =>
        /\ \A i \in DOMAIN ret.processed : RLe(ret.processed[i], WindowTo)
        /\ \A i, j \in DOMAIN ret.processed : i < j => RLt(ret.processed[i], ret.processed[j])

\* from lies strictly between two time steps and the earlier one is processed
C21_WitnessBefore ==
    /\ pc = "processed" /\ args.given = {"from", "to"} /\ ret.processed # <<>>
    /\ RLt(ret.processed[1], args.from_)
\* from is before the first time: nothing is processed
C21_WitnessNothing ==
    /\ pc = "processed" /\ args.given = {"from"} /\ times_size = MaxSteps
    /\ RLt(args.from_, firstTime) /\ ret.processed = <<>>
C21_WitnessExact ==
    /\ pc = "processed" /\ args.given = {"from", "to"} /\ Len(ret.processed) = 2
    /\ times_size = MaxSteps /\ ret.processed = InWindow(args.from_, args.to_)

\* the times selected by the argument of --at, as documented
AtSelected ==
    IF args.at.op = "" THEN InWindow(args.at.t, args.at.t)
    ELSE IF args.at.op = "+" /\ ~IsNaN(args.at.t)
    THEN InWindow(args.at.t, RAdd(args.at.t, args.at.k))
    ELSE IF args.at.op = "-" /\ ~IsNaN(args.at.t)
    THEN InWindow(RSub(args.at.t, args.at.k), args.at.t)
    ELSE IF args.at.op = "+" THEN SubSeq(times_, 1, 1)
    ELSE SubSeq(times_, times_size, times_size)
AtDocumented ==
    /\ args.given = {"at"}
    /\ args.at.op # "*"
    /\ IsNaN(args.at.t) => args.at.k = Zero

\* C22: --at t processes the step at time t, --at t+k the steps in [t, t+k],
\* --at t-k the steps in [t-k, t], --at +0 exactly the first step and
\* --at -0 exactly the last step.
C22_AtSelects ==
    (pc = "processed" /\ AtDocumented /\ times_size >= 1) =>
        ret.processed = AtSelected

\* C22 (the part that holds): --at +0 processes exactly the first step, and
\* --at t, --at t+k with k > 0 process the documented steps when t is a time
\* of the file.
C22_AtFirstOrFileTime ==
    (pc = "processed" /\ AtDocumented /\ times_size >= 1
        /\ args.at.op \in {"", "+"}
        /\ (IsNaN(args.at.t) \/ args.at.t \in Range(times_))
        /\ (args.at.op = "+" /\ ~IsNaN(args.at.t) => RGt(args.at.k, Zero))) =>
        ret.processed = AtSelected

\* C22 (what the code does): --at -0 processes nothing of a file with one
\* time step and the last two steps of a longer file.
C22_AtLastTwo ==
    (pc = "processed" /\ args.given = {"at"} /\ args.at.op = "-" /\ IsNaN(args.at.t)
        /\ args.at.k = Zero /\ times_size >= 1) =>
        ret.processed = IF times_size = 1 THEN <<>>
                        ELSE SubSeq(times_, times_size - 1, times_size)

C22_WitnessMinusZero ==
    /\ pc = "processed" /\ args.given = {"at"} /\ args.at.op = "-" /\ IsNaN(args.at.t)
    /\ args.at.k = Zero /\ times_size = MaxSteps /\ Len(ret.processed) = 2
C22_WitnessMinusZeroOne ==
    /\ pc = "processed" /\ args.given = {"at"} /\ args.at.op = "-" /\ IsNaN(args.at.t)
    /\ args.at.k = Zero /\ times_size = 1 /\ ret.processed = <<>>
C22_WitnessPlusZero ==
    /\ pc = "processed" /\ args.given = {"at"} /\ args.at.op = "+" /\ IsNaN(args.at.t)
    /\ args.at.k = Zero /\ times_size = MaxSteps /\ ret.processed = <<firstTime>>
C22_WitnessInterval ==
    /\ pc = "processed" /\ args.given = {"at"} /\ args.at.op = "+" /\ ~IsNaN(args.at.t)
    /\ RGt(args.at.k, Zero) /\ Len(ret.processed) = 2 /\ ret.processed = AtSelected

\* C29: every readState of the loop advances the cursor by one time step;
\* the loop of processFile ends for every file and every setting of from,
\* to and relative; and a loop that is not cut short by to, started at index
\* i of a file of n time steps, makes n - i iterations.
C29_LoopTerminates ==
    /\ <>(pc = "processed")
    /\ [][fn' = "readState" => index_' = index_ + 1]_vars
    /\ [](pc = "processed" /\ ret.start >= 0 /\ RLe(ret.from, ret.to) /\ RGe(ret.to, lastTime)
            => (Len(ret.processed) = times_size - ret.start /\ atEnd))

\* C29 (any order of calls): a readState below the end advances the cursor
\* by one and a readState at the end leaves it at the end, the ownship found
\* or not.
C29_ReadStateAdvances ==
    [][fn' = "readState" =>
          index_' = IF index_ < times_size THEN index_ + 1 ELSE times_size]_vars

\* the loop ran from the first to the last step of a file, with an ownship
\* that is in no step
C29_Witness ==
    /\ pc = "processed" /\ times_size = MaxSteps /\ ret.start = 0 /\ atEnd
    /\ Len(ret.processed) = MaxSteps /\ ownship_ = "AC3"
C29_WitnessFromMiddle ==
    /\ pc = "processed" /\ times_size = MaxSteps /\ ret.start = 1 /\ atEnd
    /\ Len(ret.processed) = MaxSteps - 1
C29_WitnessCutShort ==
    pc = "processed" /\ ~atEnd /\ Len(ret.processed) = 1 /\ ret.start = 0
C29_WitnessNoLoop ==
    pc = "processed" /\ ret.start = -1 /\ times_size = MaxSteps


-----------------------------------------------------------------------------
(* DaidalusBatch: --project t and processTime.  The Daidalus object holds   *)
(* the ownship (so, vo) and one traffic aircraft (si, vi) of the step read; *)
(* args holds prj_t and ret the output of processTime.                      *)

MaxProject == 2

\* the alert for the traffic aircraft: 1 when the detector reports a conflict
\* within [0, t], 0 otherwise
Daidalus_alerting(d, s0, v0, s1, v1, t) ==
    IF conflict(conflictDetection(d, s0, v0, s1, v1, Zero, t)) THEN 1 ELSE 0

\* what processTime writes: the alert and the interval of conflict
Daidalus_outputString(d, s0, v0, s1, v1, t) ==
    [alerting |-> Daidalus_alerting(d, s0, v0, s1, v1, t),
     time_in |-> conflictDetection(d, s0, v0, s1, v1, Zero, t).time_in,
     time_out |-> conflictDetection(d, s0, v0, s1, v1, Zero, t).time_out]

\* DaidalusBatch(), and the Daidalus object after readState
InitBatch ==
    /\ pc = "batch"
    /\ detector \in Detectors
    /\ so \in {IVect3(x, y, z) : x \in PosX, y \in PosY, z \in PosZ}
    /\ vo \in {IVect3(x, y, z) : x \in VelX, y \in VelY, z \in VelZ}
    /\ si = Intruder[1] /\ vi = Intruder[2]
    /\ \A p \in 0..MaxProject :
          ExactRoots(detector, linear(so, vo, R(p)), vo, linear(si, vi, R(p)), vi)
    /\ B = 0
    /\ T = MaxT
    /\ fn = "DaidalusBatch"
    /\ args = [prj_t |-> R(0)]
    /\ ret = <<>>
    /\ DetectIdle /\ ContainsIdle /\ AlerterIdle /\ CopyIdle /\ EqualsIdle /\ WalkerIdle

batchFrame ==
    <<pc, detectVars, containsVars, alerterVars, copyVars, equalsVars, walkerVars>>

\* main: --project t
Project ==
    /\ pc = "batch" /\ fn = "DaidalusBatch"
    /\ \E t \in 0..MaxProject : args' = [args EXCEPT !.prj_t = R(t)]
    /\ fn' = "main"
    /\ UNCHANGED <<inputs, ret, batchFrame>>

\* processTime of examples/DaidalusBatch.cpp: header and printOutput
ProcessTime ==
    /\ pc = "batch" /\ fn \in {"DaidalusBatch", "main"}
    /\ ret' = Daidalus_outputString(detector, so, vo, si, vi, R(T))
    /\ fn' = "processTime"
    /\ UNCHANGED <<inputs, args, batchFrame>>

\* processTime of src/DaidalusBatch.cpp: setCurrentTime(getCurrentTime() +
\* prj_t) moves every aircraft along its velocity, then bands and alerting
ProcessTime_setCurrentTime ==
    /\ pc = "batch" /\ fn \in {"DaidalusBatch", "main"}
    /\ so' = linear(so, vo, args.prj_t)
    /\ si' = linear(si, vi, args.prj_t)
    /\ ret' = Daidalus_outputString(detector, so', vo, si', vi, R(T))
    /\ fn' = "processTime_setCurrentTime"
    /\ UNCHANGED <<detector, vo, vi, B, T, args, batchFrame>>

NextBatch ==
    \/ Project
    \/ ProcessTime
    \/ ProcessTime_setCurrentTime

SpecBatch == InitBatch /\ [][NextBatch]_vars

\* the output for the states projected by prj_t
Projected ==
    Daidalus_outputString(detector, linear(so, vo, args.prj_t), vo,
                          linear(si, vi, args.prj_t), vi, R(T))

\* C23: with a projection time prj_t > 0 the output of processTime is the
\* one computed on the states (pos + vel*prj_t, vel).
C23_ProjectedBeforeAlerting ==
    [][(fn' \in {"processTime", "processTime_setCurrentTime"} /\ RGt(args.prj_t, Zero))
          => ret' = Projected]_vars

\* C23 (what the code does): the output of processTime of
\* examples/DaidalusBatch.cpp is the one of the states read, whatever prj_t.
C23_ProjectIgnored ==
    fn = "processTime" => ret = Daidalus_outputString(detector, so, vo, si, vi, R(T))

\* C23 (the part that holds): processTime of src/DaidalusBatch.cpp computes
\* on the projected states.
C23_SetCurrentTimeProjects ==
    [][fn' = "processTime_setCurrentTime" => ret' = Projected]_vars

\* processTime with prj_t > 0 on states whose projection has another output
C23_WitnessIgnored ==
    /\ fn = "processTime" /\ RGt(args.prj_t, Zero)
    /\ ret # Projected /\ ret.alerting # Projected.alerting
C23_WitnessProjected ==
    /\ fn = "processTime_setCurrentTime" /\ RGt(args.prj_t, Zero) /\ ret.alerting = 1


\* C25: on a window B = T conflictDetection returns time_in > time_out when
\* the state at the instant B is not a violation, and time_in = time_out = B
\* when it is.
C25_DegenerateWindow ==
    (pc = "detected" /\ B = T /\ detector.cls # NODET) =>
        IF ViolationAt(detector, R(B))
        THEN cd.time_in = R(B) /\ cd.time_out = R(B)
        ELSE RGt(cd.time_in, cd.time_out)

\* C25 (what the code does): on a window B = T a WCV detector returns
\* time_in = time_out = B whatever the state at the instant B.
C25_AlwaysInstant ==
    (pc = "detected" /\ B = T /\ detector.cls # NODET) =>
        cd.time_in = R(B) /\ cd.time_out = R(B)

\* the window [1,1] with a state that is not a violation at 1, reported as a
\* conflict
C25_WitnessNoViolation ==
    /\ pc = "detected" /\ B = T /\ B = 1 /\ detector.cls # NODET
    /\ ~ViolationAt(detector, R(B)) /\ conflict(cd)
C25_WitnessViolation ==
    /\ pc = "detected" /\ B = T /\ detector.cls # NODET
    /\ ViolationAt(detector, R(B)) /\ conflict(cd)


-----------------------------------------------------------------------------
(* WCV_TCPA: the horizontal predicate and the horizontal interval on the    *)
(* relative state s = so - si, v = vo - vi and the look-ahead T.            *)

\* a WCV_TCPA detector, a relative horizontal state and T > 0
InitHorizontal ==
    /\ pc = "horizontal"
    /\ detector \in {Detector(TCPA, tab, "") : tab \in Tables}
    /\ so \in {IVect3(x, y, 0) : x \in PosX, y \in PosY}
    /\ vo \in {IVect3(x, y, 0) : x \in VelX, y \in VelY}
    /\ si = Intruder[1] /\ vi = Intruder[2]
    /\ ExactRoots(detector, so, vo, si, vi)
    /\ B = 0
    /\ T \in 1..MaxT
    /\ CallIdle
    /\ DetectIdle /\ ContainsIdle /\ AlerterIdle /\ CopyIdle /\ EqualsIdle /\ WalkerIdle

horizontalFrame ==
    <<inputs, pc, detectVars, containsVars, alerterVars, copyVars, equalsVars, walkerVars>>

RelS == V2Sub(vect2(so), vect2(si))
RelV == V2Sub(vect2(vo), vect2(vi))

\* horizontal_WCV_interval(T, s, v)
HorizontalWCVInterval ==
    /\ pc = "horizontal" /\ fn = ""
    /\ fn' = "horizontal_WCV_interval"
    /\ args' = <<>>
    /\ ret' = [ld |-> horizontal_WCV_interval(detector, R(T), RelS, RelV), wcv |-> FALSE]
    /\ UNCHANGED horizontalFrame

\* the instants of [0,T] at which the predicate is evaluated: a half-second
\* grid, the ends of the interval and points an eighth beside them
Instants ==
    {Norm(x[1], x[2]) :
        x \in {y \in {<<k, 2>> : k \in 0..(2 * T)}
                      \cup {ret.ld.time_in, ret.ld.time_out,
                            RSub(ret.ld.time_in, <<1, 8>>), RAdd(ret.ld.time_in, <<1, 8>>),
                            RSub(ret.ld.time_out, <<1, 8>>), RAdd(ret.ld.time_out, <<1, 8>>)} :
                  IsFinite(y) /\ RLe(Zero, y) /\ RLe(y, R(T))}}

\* horizontal_WCV(s + t*v, v)
HorizontalWCV ==
    /\ pc = "horizontal" /\ fn \in {"horizontal_WCV_interval", "horizontal_WCV"}
    /\ \E t \in Instants :
          /\ args' = <<t>>
          /\ ret' = [ret EXCEPT !.wcv = horizontal_WCV(detector, ScalAdd(RelV, t, RelS), RelV)]
    /\ fn' = "horizontal_WCV"
    /\ UNCHANGED horizontalFrame

NextHorizontal ==
    \/ HorizontalWCVInterval
    \/ HorizontalWCV

SpecHorizontal == InitHorizontal /\ [][NextHorizontal]_vars

\* loss at the instant t with the time to closest approach as the time
\* variable: |s| <= DTHR, or dcpa <= DTHR and 0 <= tcpa <= TTHR
TcpaLossAt(t) ==
    \/ RLe(sqv(ScalAdd(RelV, t, RelS)), RSq(detector.table.DTHR))
    \/ /\ Horizontal_dcpa_le(ScalAdd(RelV, t, RelS), RelV, detector.table.DTHR)
       /\ sqv(RelV) # Zero
       /\ RLe(Zero, RDiv(RNeg(dot(ScalAdd(RelV, t, RelS), RelV)), sqv(RelV)))
       /\ RLe(RDiv(RNeg(dot(ScalAdd(RelV, t, RelS), RelV)), sqv(RelV)), detector.table.TTHR)

\* C24: for WCV_TCPA and every t in [0,T], horizontal_WCV(s + t*v, v) holds
\* iff t lies in the interval returned by horizontal_WCV_interval(T, s, v).
C24_PredicateIffInterval ==
    (pc = "horizontal" /\ fn = "horizontal_WCV") => (ret.wcv <=> Within(args[1], ret.ld))

\* C24 (the part that holds): the interval is the set of instants of loss
\* with the time to closest approach as the time variable.
C24_IntervalIsTcpaLoss ==
    (pc = "horizontal" /\ fn = "horizontal_WCV") => (TcpaLossAt(args[1]) <=> Within(args[1], ret.ld))

\* C24 (the part that holds): inside the distance threshold the predicate
\* and the interval agree.
C24_AgreeInsideDTHR ==
    (pc = "horizontal" /\ fn = "horizontal_WCV"
        /\ RLe(sqv(ScalAdd(RelV, args[1], RelS)), RSq(detector.table.DTHR))) =>
        (ret.wcv /\ Within(args[1], ret.ld))

\* the predicate holds at an instant before the interval
C24_WitnessPredicateOnly ==
    /\ pc = "horizontal" /\ fn = "horizontal_WCV" /\ ret.wcv
    /\ RLe(ret.ld.time_in, ret.ld.time_out) /\ RLt(args[1], ret.ld.time_in)
C24_WitnessBoth ==
    /\ pc = "horizontal" /\ fn = "horizontal_WCV" /\ ret.wcv /\ Within(args[1], ret.ld)
    /\ RGt(sqv(ScalAdd(RelV, args[1], RelS)), RSq(detector.table.DTHR))


-----------------------------------------------------------------------------
(* The two overloads of vsLevelOutFinal, and vsLevelOutTime.                *)

\* vsLevelOutFinal(sv0, climbRate, targetAlt, a, true) on the arguments of the call
args_FinalTrue ==
    vsLevelOutFinal(args.s0, args.v0, args.climbRate, args.targetAlt, args.accelUp, TRUE)

\* vsLevelOutTime(sv0, climbRate, targetAlt, a): allowClimbRateChange is true
args_TimeTrue ==
    vsLevelOutTime(args.s0, args.v0, args.climbRate, args.targetAlt, args.accelUp, TRUE)

\* The vertical speed points at the target altitude, or is zero.
TowardsTarget ==
    \/ (IF RGe(args.v0.z, Zero) THEN 1 ELSE -1)
          = (IF RGe(args.targetAlt, args.s0.z) THEN 1 ELSE -1)
    \/ args.v0.z = Zero

\* The aircraft can stop its vertical speed before the target altitude.
CanStopBefore ==
    RGe(RAbs(RSub(args.targetAlt, args.s0.z)),
        RAbs(S3(args.v0.z, IF RGe(args.targetAlt, args.s0.z)
                           THEN RNeg(args.accelUp) ELSE args.accelUp)))

\* Case 1.1 of vsLevelOutTimes: the times are those of vsLevelOutTimesBase
DirectCase == TowardsTarget /\ CanStopBefore

\* C30: the two overloads of vsLevelOutFinal agree: on all inputs
\* vsLevelOutFinal(sv0, climbRate, targetAlt, a) returns the state and the time
\* of vsLevelOutFinal(sv0, climbRate, targetAlt, a, true), and that time is
\* vsLevelOutTime(sv0, climbRate, targetAlt, a), also when the vertical speed is
\* too high to stop before targetAlt or points away from targetAlt.
C30_OverloadsAgree ==
    (pc = "levelout" /\ fn = "vsLevelOutFinal_Base") =>
        /\ ret = args_FinalTrue
        /\ ret.t = args_TimeTrue

\* C30, the part that holds: the overloads agree where the vertical speed points
\* at the target altitude and can be stopped before it.
C30_AgreeDirect ==
    (pc = "levelout" /\ fn = "vsLevelOutFinal_Base" /\ DirectCase) =>
        /\ ret = args_FinalTrue
        /\ ret.t = args_TimeTrue

\* C30, the part that holds: the time of the five-argument vsLevelOutFinal is
\* the time vsLevelOutTime returns on the same arguments.
C30_FinalTimeIsLevelOutTime ==
    (pc = "levelout" /\ fn = "vsLevelOutFinal") =>
        ret.t = vsLevelOutTime(args.s0, args.v0, args.climbRate, args.targetAlt,
                               args.accelUp, args.allowClimbRateChange)

\* the four-argument overload was called in the direct case, and levelled out
C30_WitnessDirect ==
    /\ pc = "levelout" /\ fn = "vsLevelOutFinal_Base"
    /\ DirectCase /\ args.v0.z # Zero
    /\ RGt(ret.t, Zero) /\ ret = args_FinalTrue

\* the four-argument overload was called with a vertical speed too high to stop
\* before the target altitude, and differs from the five-argument one
C30_WitnessTooFast ==
    /\ pc = "levelout" /\ fn = "vsLevelOutFinal_Base"
    /\ TowardsTarget /\ ~CanStopBefore
    /\ ret # args_FinalTrue

\* the four-argument overload was called with a vertical speed that points away
\* from the target altitude, and its time is not that of vsLevelOutTime
C30_WitnessAway ==
    /\ pc = "levelout" /\ fn = "vsLevelOutFinal_Base"
    /\ ~TowardsTarget /\ RGt(args.climbRate, Zero)
    /\ IsFinite(ret.t) /\ IsFinite(args_TimeTrue)
    /\ ret.t # args_TimeTrue

\* the five-argument overload was called and levelled out
C30_WitnessFinalTime ==
    /\ pc = "levelout" /\ fn = "vsLevelOutFinal"
    /\ RGt(ret.t, Zero)

====
